---- MODULE Spec2Model ----
(***************************************************************************)
(* Model of the browser agent: the orchestration loops                     *)
(* (AgentCore.execute_task, MainAgent.run), the action dispatch table      *)
(* (BrowserActions.execute and its handlers) and the operator prompts.     *)
(*                                                                         *)
(* Python strings are sequences of tokens.  A token is one code point      *)
(* ("U+2705"), one punctuation character (":", " ") or one ASCII word, so  *)
(* that str.startswith, str.replace and str.strip are computed on the      *)
(* code points the two source files really contain.                        *)
(***************************************************************************)
EXTENDS Integers, Sequences, FiniteSets, TLC

VARIABLES
    agent,                  \* "core" (AgentCore), "main" (MainAgent) or "none"
    pc,                     \* position of the running task
    iteration,              \* local variable iteration of the loop
    requests,               \* number of model requests issued for the task
    messages,               \* AgentCore.messages
    conversation_history,   \* MainAgent.conversation_history
    response,               \* the model response being processed
    blk,                    \* index of the next tool invocation of response
    tool_results,           \* local list tool_results of execute_task
    result,                 \* return value of the task (NoResult while running)
    raised,                 \* TRUE when the task ended by an uncaught exception
    executed,               \* ids of the invocations handed to a handler, in order
    emitted,                \* number of tool invocations the backend has returned
    browser,                \* "alive" or "dead": a dead session makes every driver call throw
    prompts,                \* operator prompts shown so far: <<kind, answer, id>>
    last_error,             \* iteration in which the except clause last ran (0: never)
    ex_tool,                \* BrowserActions.execute: tool_name
    ex_kwargs,              \* BrowserActions.execute: **kwargs
    ex_driver,              \* "ok" or "throws": what the driver does during the call
    ex_out,                 \* outcome of the call, NotCalled before it
    pages,                  \* BrowserInterface._context.pages: the open tabs, in order
    _page,                  \* BrowserInterface._page: the active page
    opened,                 \* number of pages the session has created
    tab_call,               \* the last tab handler call: arguments, state before, return value
    snapshot,               \* the rendered snapshot text, as its list of lines
    token_limit,            \* BrowserContext.token_limit
    captured,               \* what capture_current_state returned, NotCalled before
    truncated_once,         \* what _truncate_snapshot returned for snapshot
    truncated_twice,        \* what it returned for its own output
    elements,               \* the classified elements _extract_interactive_elements returned
    rendered,               \* the lines of get_text_snapshot, <<>> before the call
    dom,                    \* the nodes of the document of the active page, in document order
    url,                    \* the URL of the active page
    loads,                  \* number of documents the page has loaded
    found,                  \* what find_elements returned, <<>> once an action has run since
    issued,                 \* selector values returned by discovery calls on this document
    stale,                  \* selector values returned by discovery calls on earlier documents
    last,                   \* the last action handler call: arguments, driver operations, return value
    elem,                   \* an element of the page: tag, attributes, text and computed style
    extracted,              \* what _extract_interactive_elements did with elem
    discovered,             \* what the visibility check of find_elements did with elem
    parked,                 \* the pages that are not active: page -> its document and URL
    observed,               \* the tab list of the last observe_page call, with the tab active then
    confirmation,           \* a request_confirmation call: its arguments and the operator's answer
    confirmed               \* what _handle_confirmation made of the signal of that call

vars == <<agent, pc, iteration, requests, messages, conversation_history,
          response, blk, tool_results, result, raised, executed, emitted,
          browser, prompts, last_error, ex_tool, ex_kwargs, ex_driver, ex_out,
          pages, _page, opened, tab_call,
          snapshot, token_limit, captured, truncated_once, truncated_twice,
          elements, rendered, dom, url, loads, found, issued, stale, last,
          elem, extracted, discovered, parked, observed, confirmation, confirmed>>

loopVars == <<agent, pc, iteration, requests, messages, conversation_history,
              response, blk, tool_results, result, raised, executed, emitted,
              browser, prompts, last_error>>

execVars == <<ex_tool, ex_kwargs, ex_driver, ex_out>>

tabVars == <<pages, _page, opened, tab_call>>

truncVars == <<snapshot, token_limit, captured, truncated_once, truncated_twice>>

snapVars == <<elements, rendered>>

pageVars == <<dom, url, loads, found, issued, stale, last>>

classVars == <<elem, extracted, discovered>>

parkVars == <<parked, observed>>

confirmVars == <<confirmation, confirmed>>

----------------------------------------------------------------------------
(* Bounds *)

\* cap of the loop (AgentCore: constructor argument, MainAgent: attribute)
max_iterations == 2

\* the backend returns at most this many tool invocations during one task
MaxToolUses == 3

\* at most this many keyword arguments in one call of execute
MaxKwargs == 2

----------------------------------------------------------------------------
(* Python string operations on token sequences *)

startswith(s, p) == Len(s) >= Len(p) /\ SubSeq(s, 1, Len(p)) = p

RECURSIVE replace(_, _, _)
\* str.replace(old, new): every non-overlapping occurrence, left to right
replace(s, old, new) ==
    IF s = <<>> \/ old = <<>> THEN s
    ELSE IF startswith(s, old)
         THEN new \o replace(SubSeq(s, Len(old) + 1, Len(s)), old, new)
         ELSE <<Head(s)>> \o replace(Tail(s), old, new)

RECURSIVE lstrip(_)
lstrip(s) == IF s # <<>> /\ Head(s) \in {" ", "\n"} THEN lstrip(Tail(s)) ELSE s

RECURSIVE rstrip(_)
rstrip(s) ==
    IF s # <<>> /\ s[Len(s)] \in {" ", "\n"} THEN rstrip(SubSeq(s, 1, Len(s) - 1)) ELSE s

strip(s) == rstrip(lstrip(s))

RECURSIVE split(_, _, _)
\* str.split(sep, maxsplit) for a separator of one token
split(s, sep, maxsplit) ==
    LET hits == {k \in 1..Len(s) : s[k] = sep}
    IN  IF maxsplit = 0 \/ hits = {} THEN <<s>>
        ELSE LET k == CHOOSE h \in hits : \A g \in hits : h <= g
             IN  <<SubSeq(s, 1, k - 1)>> \o split(SubSeq(s, k + 1, Len(s)), sep, maxsplit - 1)

RECURSIVE contains(_, _)
\* old in s
contains(s, old) ==
    IF Len(s) < Len(old) THEN FALSE
    ELSE startswith(s, old) \/ contains(Tail(s), old)

----------------------------------------------------------------------------
(* The three side-channel signals *)

\* what tools.py writes in front of the payload
HumanHelpSignal == <<"U+1F6A8", " ", "HUMAN_HELP_NEEDED", ":">>
ConfirmationSignal == <<"U+26A0", "U+FE0F", " ", "CONFIRMATION_REQUIRED", ":">>
TaskCompleteSignal == <<"U+2705", " ", "TASK_COMPLETE", ":">>

\* what core.py tests for
HumanHelpPrefix ==
    <<"U+F8FF", "U+00FC", "U+00F6", "U+00AE", " ", "HUMAN_HELP_NEEDED", ":">>
ConfirmationPrefix ==
    <<"U+201A", "U+00F6", "U+2020", "U+00D4", "U+220F", "U+00E8", " ",
      "CONFIRMATION_REQUIRED", ":">>
TaskCompletePrefix == <<"U+201A", "U+00FA", "U+00D6", " ", "TASK_COMPLETE", ":">>

request_human_help(description) == HumanHelpSignal \o <<" ">> \o description

request_confirmation(action_description, risk_level) ==
    ConfirmationSignal \o risk_level \o <<":">> \o action_description

task_complete(summary) == TaskCompleteSignal \o <<" ">> \o summary

----------------------------------------------------------------------------
(* Action dispatch table: BrowserActions._tools and the handlers *)

OkMark == <<"U+2705">>
FailurePrefix == <<"U+274C">>
WarnMark == <<"U+26A0", "U+FE0F">>

\* one row per registered handler: required and optional parameters, whether
\* the body is wrapped in its own try/except, whether it calls the driver,
\* and the first words of its failure string
Row(req, opt, guarded, driver, mark, words) ==
    [required |-> req, optional |-> opt, guarded |-> guarded, driver |-> driver,
     mark |-> mark, words |-> words]

_tools ==
    [t \in {"observe_page", "discover_element", "extract_links", "click_element",
            "type_text", "hover_element", "press_key", "navigate_url",
            "navigate_back", "scroll_page", "wait_for_element", "wait_seconds",
            "check_modals", "get_page_html", "wait_for_page_load", "list_tabs",
            "switch_tab", "close_tab", "request_human_help",
            "request_confirmation", "task_complete"} |->
        CASE t = "observe_page" -> Row({}, {}, FALSE, TRUE, <<>>, <<>>)
          [] t = "discover_element" ->
                Row({"search_text"}, {"element_type"}, FALSE, TRUE, <<>>, <<>>)
          [] t = "extract_links" ->
                Row({}, {"filter_text"}, TRUE, TRUE, FailurePrefix, "Failed to extract links")
          [] t = "click_element" ->
                Row({"selector", "description"}, {}, TRUE, TRUE, FailurePrefix, "Failed to click")
          [] t = "type_text" ->
                Row({"selector", "text"}, {"press_enter"}, TRUE, TRUE, FailurePrefix, "Failed to type")
          [] t = "hover_element" ->
                Row({"selector", "description"}, {}, TRUE, TRUE, FailurePrefix, "Failed to hover")
          [] t = "press_key" ->
                Row({"key"}, {}, TRUE, TRUE, FailurePrefix, "Failed to press key")
          [] t = "navigate_url" ->
                Row({"url"}, {}, TRUE, TRUE, FailurePrefix, "Failed to navigate")
          [] t = "navigate_back" ->
                Row({}, {}, TRUE, TRUE, FailurePrefix, "Failed to go back")
          [] t = "scroll_page" ->
                Row({"direction"}, {"pixels"}, TRUE, TRUE, FailurePrefix, "Failed to scroll")
          [] t = "wait_for_element" ->
                Row({"selector"}, {"timeout"}, TRUE, TRUE, FailurePrefix, "Wait failed")
          [] t = "wait_seconds" ->
                Row({"seconds"}, {}, TRUE, TRUE, FailurePrefix, "Wait failed")
          [] t = "check_modals" ->
                Row({}, {}, TRUE, TRUE, FailurePrefix, "Failed to check modals")
          [] t = "get_page_html" ->
                Row({}, {}, TRUE, TRUE, FailurePrefix, "Failed to get HTML")
          [] t = "wait_for_page_load" ->
                Row({}, {"timeout"}, TRUE, TRUE, WarnMark, "Page load timeout or error")
          [] t = "list_tabs" ->
                Row({}, {}, TRUE, TRUE, FailurePrefix, "Failed to list tabs")
          [] t = "switch_tab" ->
                Row({"tab_index"}, {}, TRUE, TRUE, FailurePrefix, "Failed to switch tab")
          [] t = "close_tab" ->
                Row({"tab_index"}, {}, TRUE, TRUE, FailurePrefix, "Failed to close tab")
          [] t = "request_human_help" ->
                Row({"description"}, {}, FALSE, FALSE, <<>>, <<>>)
          [] t = "request_confirmation" ->
                Row({"action_description", "risk_level"}, {}, FALSE, FALSE, <<>>, <<>>)
          [] t = "task_complete" ->
                Row({"summary"}, {}, FALSE, FALSE, <<>>, <<>>)]

\* what a handler returns when its driver calls succeed
HandlerBody(tool_name, kw) ==
    CASE tool_name = "request_human_help" -> request_human_help(kw["description"])
      [] tool_name = "request_confirmation" ->
            request_confirmation(kw["action_description"], kw["risk_level"])
      [] tool_name = "task_complete" -> task_complete(kw["summary"])
      [] tool_name = "observe_page" -> <<"U+1F4C4", " ", "Current Page State", ":">>
      [] tool_name = "get_page_html" -> <<"U+1F4C4", " ", "Page HTML", ":">>
      [] tool_name = "list_tabs" -> <<"U+1F4D1", " ", "Found open tab(s)", ":">>
      [] tool_name = "wait_seconds" -> <<"U+23F1", "U+FE0F", " ", "Waited">> \o kw["seconds"]
      [] tool_name = "click_element" ->
            OkMark \o <<" ", "Clicked", ":", " ">> \o kw["description"]
      [] tool_name = "navigate_url" ->
            OkMark \o <<" ", "Navigated to", ":", " ">> \o kw["url"]
      [] tool_name = "switch_tab" ->
            OkMark \o <<" ", "Switched to tab", " ">> \o kw["tab_index"]
      [] tool_name = "scroll_page" -> OkMark \o <<" ", "Scrolled", " ">> \o kw["direction"]
      [] OTHER -> OkMark \o <<" ", tool_name>>

\* f"... Error executing {tool_name}: {str(e)}"
ErrorExecuting(tool_name, e) ==
    FailurePrefix \o <<" ", "Error executing", " ", tool_name, ":", " ", e>>

\* handler(**kwargs): binding of the keyword arguments, then the body
Handler(tool_name, kw, drv) ==
    LET row == _tools[tool_name]
        keys == DOMAIN kw
    IN  IF ~(row.required \subseteq keys /\ keys \subseteq row.required \cup row.optional)
        THEN [raised |-> TRUE, value |-> "TypeError"]
        ELSE IF row.driver /\ drv = "throws"
        THEN IF row.guarded
             THEN [raised |-> FALSE,
                   value |-> row.mark \o <<" ", row.words, ":", " ", "DriverError">>]
             ELSE [raised |-> TRUE, value |-> "DriverError"]
        ELSE [raised |-> FALSE, value |-> HandlerBody(tool_name, kw)]

\* the parameters of execute itself: a keyword argument of that name cannot be
\* bound a second time, and the call raises TypeError before the body runs
ExecuteParams == {"self", "tool_name"}

execute(tool_name, kw, drv) ==
    IF (DOMAIN kw) \cap ExecuteParams # {}
    THEN [raised |-> TRUE, value |-> <<"TypeError">>]
    ELSE IF tool_name \notin DOMAIN _tools
    THEN [raised |-> FALSE,
          value |-> FailurePrefix \o <<" ", "Unknown tool", ":", " ", tool_name>>]
    ELSE LET r == Handler(tool_name, kw, drv)
         IN  IF r.raised
             THEN [raised |-> FALSE, value |-> ErrorExecuting(tool_name, r.value)]
             ELSE r

----------------------------------------------------------------------------
(* Conversation turns, model responses, operator *)

Turn(role, kind, text, items) ==
    [role |-> role, kind |-> kind, text |-> text, items |-> items]

NoResponse == [stop_reason |-> "none", text |-> <<>>, tool_uses |-> <<>>]

user_task == <<"task">>

\* the text blocks of the response to request number i
ReplyText(i) == <<"reply", ToString(i)>>

StopReasons == {"end_turn", "tool_use", "max_tokens"}

\* what the backend may ask AgentCore to run: name and input of one tool_use block
CoreUses ==
    { [name |-> "click_element",
       input |-> [selector |-> <<"sel">>, description |-> <<"button">>]],
      [name |-> "navigate_url", input |-> [url |-> <<"/page2">>]],
      [name |-> "request_human_help", input |-> [description |-> <<"captcha">>]],
      [name |-> "request_confirmation",
       input |-> [action_description |-> <<"pay">>, risk_level |-> <<"financial">>]],
      [name |-> "task_complete", input |-> [summary |-> <<"all done">>]],
      [name |-> "observe_page", input |-> [tool_name |-> <<"observe_page">>]] }

\* the tool_use blocks of one response: n blocks, ids continuing after `first`
ToolUseLists(Uses, first, n) ==
    { [k \in 1..n |-> [name |-> f[k].name, input |-> f[k].input, id |-> first + k]] :
        f \in [1..n -> Uses] }

\* answers the operator may type at a prompt; "^C" is KeyboardInterrupt
Answers == {"yes", "y", "", "no", "n", "more", "^C"}

MaxIterationsMsg ==
    <<"Reached ", "maximum iterations", " (", ToString(max_iterations), "). ",
      "Task may be incomplete.">>

----------------------------------------------------------------------------
(* AgentCore.execute_task *)

\* mutant: the loop runs one more time (<= in place of <)
WhileCondition_OffByOne(i) == i <= max_iterations

\* while iteration < self.max_iterations
WhileCondition(i) == i < max_iterations

\* f"An error occurred: Error: {str(e)}. Please try a different approach."
ErrorTurn(e) ==
    Turn("user", "error",
         <<"An error occurred: ", "Error: ", e, ". Please try a different approach.">>,
         <<>>)

\* mutant: the except clause swallows the error and adds nothing
ExceptHandler_Silent(msgs, e) == msgs

\* the except clause of the loop body
ExceptHandler(msgs, e) == Append(msgs, ErrorTurn(e))

\* mutant: the result is put in front of the list
AppendResult_Front(results, tool_id, content) ==
    <<[tool_use_id |-> tool_id, content |-> content]>> \o results

\* tool_results.append({"type": "tool_result", "tool_use_id": ..., "content": ...})
AppendResult(results, tool_id, content) ==
    Append(results, [tool_use_id |-> tool_id, content |-> content])

\* the tool names after which the loop refreshes the page state
RefreshTools == {"interact_click", "navigate_url", "scroll_page", "switch_tab"}

\* f"\n... Page Updated:\nURL: {url}\nTitle: {title}"
PageUpdated == <<"\n", "<emoji>", " ", "Page Updated", ":", "\n", "URL: ", "<url>", "\n", "Title: ", "<title>">>

NotCompleteMsg ==
    <<"<emoji>", " ", "User says task is NOT complete yet. Continue working on the task.">>

AdditionalInstructions(user_response) ==
    <<"<emoji>", " ", "User provided additional instructions", ":", " ", user_response,
      "\n", "Continue working with this new information.">>

HumanDoneMsg ==
    <<"<emoji>", " ", "Human intervention completed.", "\n", "Current URL: ", "<url>",
      "\n", "Page Title: ", "<title>", "\n", "Agent can now continue.">>

\* _handle_confirmation: risk level and description recovered from the signal
ParseConfirmation(signal) ==
    LET parts == split(replace(signal, ConfirmationPrefix, <<>>), ":", 2)
    IN  [risk_level |-> IF Len(parts) > 0 THEN parts[1] ELSE <<"unknown">>,
         action_description |-> IF Len(parts) > 1 THEN parts[2] ELSE <<"Unknown action">>]

ConfirmedMsg(signal) ==
    <<"<emoji>", " ", "User CONFIRMED the action. You may proceed with", ":", " ">>
        \o ParseConfirmation(signal).action_description

DeclinedMsg == <<"<emoji>", " ", "User DECLINED the action. Do NOT proceed.">>

ConfirmCancelledMsg == <<"<emoji>", " ", "User cancelled. Do NOT proceed with this action.">>

CancelledMsg == <<"Task cancelled by user">>

\* the session a driver call meets
Driver == IF browser = "alive" THEN "ok" ELSE "throws"

\* a new task: self.messages = [{"role": "user", "content": user_task}]
StartTask ==
    /\ pc = "idle"
    /\ agent = "core"
    /\ messages' = <<Turn("user", "task", user_task, <<>>)>>
    /\ iteration' = 0
    /\ pc' = "loop"
    /\ UNCHANGED <<agent, requests, conversation_history, response, blk, tool_results,
                   result, raised, executed, emitted, browser, prompts, last_error>>
    /\ UNCHANGED <<execVars, tabVars, truncVars, snapVars, pageVars, classVars, parkVars, confirmVars>>

\* the model request raises: the except clause appends the error turn
RequestRaises ==
    /\ pc = "loop"
    /\ agent = "core"
    /\ WhileCondition(iteration)
    /\ iteration' = iteration + 1
    /\ requests' = requests + 1
    /\ messages' = ExceptHandler(messages, "backend")
    /\ last_error' = iteration + 1
    /\ UNCHANGED <<agent, pc, conversation_history, response, blk, tool_results, result,
                   raised, executed, emitted, browser, prompts>>
    /\ UNCHANGED <<execVars, tabVars, truncVars, snapVars, pageVars, classVars, parkVars, confirmVars>>

\* the model request returns a response
RequestReturns ==
    /\ pc = "loop"
    /\ agent = "core"
    /\ WhileCondition(iteration)
    /\ iteration' = iteration + 1
    /\ requests' = requests + 1
    /\ \E stop \in StopReasons, n \in 0..(MaxToolUses - emitted) :
       \E uses \in ToolUseLists(CoreUses, emitted, n) :
          LET r == [stop_reason |-> stop, text |-> ReplyText(requests + 1),
                    tool_uses |-> uses]
          IN  /\ emitted' = emitted + n
              /\ messages' = Append(messages, Turn("assistant", "assistant", r.text, uses))
              /\ IF stop = "end_turn"
                 THEN /\ result' = r.text
                      /\ pc' = "done"
                      /\ response' = NoResponse
                      /\ UNCHANGED <<blk, tool_results>>
                 ELSE /\ response' = [r EXCEPT !.stop_reason = "continue"]
                      /\ tool_results' = <<>>
                      /\ blk' = 1
                      /\ pc' = "tools"
                      /\ UNCHANGED result
    /\ UNCHANGED <<agent, conversation_history, raised, executed, browser, prompts,
                   last_error>>
    /\ UNCHANGED <<execVars, tabVars, truncVars, snapVars, pageVars, classVars, parkVars, confirmVars>>

\* the prompt of _handle_human_help: Enter resumes, an interrupt raises Exception
\* (kind "raise"); the resumed handler refreshes the page state
_handle_human_help(signal, ans, drv) ==
    IF ans = "^C"
    THEN [kind |-> "raise", value |-> <<"Task cancelled by user during human intervention">>]
    ELSE IF drv = "throws"
    THEN [kind |-> "raise", value |-> <<"DriverError">>]
    ELSE [kind |-> "result", value |-> HumanDoneMsg]

\* the prompt loop of _handle_confirmation: any other answer asks again
_handle_confirmation(signal, ans) ==
    CASE ans \in {"yes", "y"} -> [kind |-> "result", value |-> ConfirmedMsg(signal)]
      [] ans \in {"no", "n"} -> [kind |-> "result", value |-> DeclinedMsg]
      [] ans = "^C" -> [kind |-> "result", value |-> ConfirmCancelledMsg]
      [] OTHER -> [kind |-> "again", value |-> <<>>]

\* the sanity check on a task-complete signal (core.py lines 133-158)
SanityCheck(res, ans) ==
    LET summary == strip(replace(res, TaskCompletePrefix, <<>>))
    IN  CASE ans \in {"yes", "y", ""} -> [kind |-> "return", value |-> summary]
          [] ans \in {"no", "n"} -> [kind |-> "result", value |-> NotCompleteMsg]
          [] ans = "^C" -> [kind |-> "return", value |-> CancelledMsg]
          [] OTHER -> [kind |-> "result", value |-> AdditionalInstructions(ans)]

\* which prompt the loop enters for a tool result: the three prefix tests
SignalOf(res) ==
    IF startswith(res, HumanHelpPrefix) THEN "human_help"
    ELSE IF startswith(res, ConfirmationPrefix) THEN "confirmation"
    ELSE IF startswith(res, TaskCompletePrefix) THEN "task_complete"
    ELSE "none"

\* "Handle special signals": the result of one invocation after the prefix tests
Interpret(res, ans, drv) ==
    CASE SignalOf(res) = "human_help" -> _handle_human_help(res, ans, drv)
      [] SignalOf(res) = "confirmation" -> _handle_confirmation(res, ans)
      [] SignalOf(res) = "task_complete" -> SanityCheck(res, ans)
      [] OTHER -> [kind |-> "result", value |-> res]

\* "Auto-refresh context after navigation actions": the content recorded for
\* the invocation, or the exception of capture_current_state
Refresh(tool_name, content, drv) ==
    IF tool_name \in RefreshTools
    THEN IF drv = "throws"
         THEN [kind |-> "raise", value |-> <<"DriverError">>]
         ELSE [kind |-> "result", value |-> content \o PageUpdated]
    ELSE [kind |-> "result", value |-> content]

\* one tool_use block of the response: execute, signals, result, refresh; after
\* the last block the results are added to the conversation
ExecuteTool ==
    /\ pc = "tools"
    /\ agent = "core"
    /\ blk <= Len(response.tool_uses)
    /\ LET b == response.tool_uses[blk]
           r == execute(b.name, b.input, Driver)
       IN  IF r.raised
           THEN /\ messages' = ExceptHandler(messages, "TypeError")
                /\ last_error' = iteration
                /\ pc' = "loop"
                /\ response' = NoResponse
                /\ tool_results' = <<>>
                /\ blk' = 0
                /\ UNCHANGED <<result, executed, prompts>>
           ELSE \E ans \in Answers :
                LET sig == SignalOf(r.value)
                    i == Interpret(r.value, ans, Driver)
                    f == IF i.kind = "result" THEN Refresh(b.name, i.value, Driver) ELSE i
                    results == AppendResult(tool_results, b.id, f.value)
                IN  /\ i.kind # "again"
                    /\ executed' = Append(executed, b.id)
                    /\ prompts' = IF sig = "none" THEN prompts
                                  ELSE Append(prompts, <<sig, ans, b.id>>)
                    /\ CASE f.kind = "return" ->
                              /\ result' = f.value
                              /\ pc' = "done"
                              /\ response' = NoResponse
                              /\ tool_results' = <<>>
                              /\ blk' = 0
                              /\ UNCHANGED <<messages, last_error>>
                         [] f.kind = "raise" ->
                              /\ messages' = ExceptHandler(messages, f.value[1])
                              /\ last_error' = iteration
                              /\ pc' = "loop"
                              /\ response' = NoResponse
                              /\ tool_results' = <<>>
                              /\ blk' = 0
                              /\ UNCHANGED result
                         [] OTHER ->
                              IF blk < Len(response.tool_uses)
                              THEN /\ tool_results' = results
                                   /\ blk' = blk + 1
                                   /\ UNCHANGED <<messages, pc, response, result, last_error>>
                              ELSE /\ messages' =
                                        Append(messages,
                                               Turn("user", "tool_results", <<>>, results))
                                   /\ pc' = "loop"
                                   /\ response' = NoResponse
                                   /\ tool_results' = <<>>
                                   /\ blk' = 0
                                   /\ UNCHANGED <<result, last_error>>
    /\ UNCHANGED <<agent, iteration, requests, conversation_history, raised, emitted,
                   browser>>
    /\ UNCHANGED <<execVars, tabVars, truncVars, snapVars, pageVars, classVars, parkVars, confirmVars>>

\* the response carried no tool_use block and did not stop with end_turn:
\* nothing is added and the loop goes round
NoToolResults ==
    /\ pc = "tools"
    /\ agent = "core"
    /\ blk > Len(response.tool_uses)
    /\ pc' = "loop"
    /\ response' = NoResponse
    /\ blk' = 0
    /\ UNCHANGED <<agent, iteration, requests, messages, conversation_history,
                   tool_results, result, raised, executed, emitted, browser, prompts,
                   last_error>>
    /\ UNCHANGED <<execVars, tabVars, truncVars, snapVars, pageVars, classVars, parkVars, confirmVars>>

\* "Max iterations reached"
MaxIterationsReached ==
    /\ pc = "loop"
    /\ ~WhileCondition(iteration)
    /\ result' = MaxIterationsMsg
    /\ pc' = "done"
    /\ UNCHANGED <<agent, iteration, requests, messages, conversation_history, response,
                   blk, tool_results, raised, executed, emitted, browser, prompts,
                   last_error>>
    /\ UNCHANGED <<execVars, tabVars, truncVars, snapVars, pageVars, classVars, parkVars, confirmVars>>

----------------------------------------------------------------------------
(* MainAgent.run *)

system_prompt == <<"You are an advanced AI agent">>

\* function.arguments is JSON text: well-formed text of an object, or not JSON
JsonObject(obj) == [json |-> "object", value |-> obj]
Malformed == [json |-> "malformed", value |-> <<>>]

\* json.loads
json_loads(arguments) ==
    IF arguments.json = "object"
    THEN [raised |-> FALSE, value |-> arguments.value]
    ELSE [raised |-> TRUE, value |-> "JSONDecodeError"]

\* what the backend may ask MainAgent to run
MainUses ==
    { [name |-> "click_element", input |-> JsonObject([selector |-> <<"#", "Submit">>])],
      [name |-> "click_element", input |-> JsonObject([selector |-> <<"#", "next">>])],
      [name |-> "navigate_to_url", input |-> JsonObject([url |-> <<"/page2">>])],
      [name |-> "go_back", input |-> JsonObject([selector |-> <<"#", "next">>])],
      [name |-> "navigate_to_url", input |-> Malformed] }

\* the Russian keywords are written in Latin letters with the prefix ru:
dangerous_keywords ==
    {"delete", "ru:udalit", "remove", "ru:ubrat", "pay", "ru:oplatit", "buy", "ru:kupit",
     "purchase", "submit", "ru:otpravit", "confirm", "ru:podtverdit", "checkout", "ru:oformit"}

\* str.lower on one token
lower(tok) ==
    CASE tok = "Submit" -> "submit"
      [] tok = "Click on element" -> "click on element"
      [] OTHER -> tok

\* any(keyword in action_lower for keyword in dangerous_keywords)
parse_security_action(action) ==
    \E k \in 1..Len(action) : lower(action[k]) \in dangerous_keywords

\* f"Click on element: {function_args.get('selector', 'unknown')}"
ActionDesc(args) ==
    <<"Click on element", ":", " ">>
        \o (IF "selector" \in DOMAIN args THEN args["selector"] ELSE <<"unknown">>)

\* mutant: the answer of the operator is ignored
ClickAllowed_Always(action_desc, ans) == TRUE

\* the click goes to the handler: no keyword matched, or the operator said yes
ClickAllowed(action_desc, ans) ==
    parse_security_action(action_desc) => ans \in {"yes", "y", "ru:da"}

CancelledBySecurity == <<"Action ", "cancelled by user", " for security reasons.">>

\* MainAgent._execute_tool: every branch is inside one try
_execute_tool(tool_name, args, drv) ==
    CASE tool_name = "navigate_to_url" ->
            IF "url" \notin DOMAIN args
            THEN <<"Error executing ", tool_name, ":", " ", "KeyError">>
            ELSE IF drv = "throws"
            THEN <<"Error navigating to ">> \o args["url"] \o <<":", " ", "DriverError">>
            ELSE <<"Successfully navigated to ">> \o args["url"]
      [] tool_name = "click_element" ->
            IF "selector" \notin DOMAIN args
            THEN <<"Error executing ", tool_name, ":", " ", "KeyError">>
            ELSE IF drv = "throws"
            THEN <<"Error clicking element ">> \o args["selector"] \o <<":", " ", "DriverError">>
            ELSE <<"Clicked element", ":", " ">> \o args["selector"]
      [] tool_name = "go_back" ->
            IF drv = "throws" THEN <<"Error going back", ":", " ", "DriverError">>
            ELSE <<"Navigated back to ", "<url>">>
      [] OTHER -> <<"Unknown tool", ":", " ", tool_name>>

\* f"An error occurred: Error in agent loop: {str(e)}. Please try a different approach."
RunErrorTurn(e) ==
    Turn("user", "error",
         <<"An error occurred: ", "Error in agent loop: ", e,
           ". Please try a different approach.">>,
         <<>>)

\* the except clause of the loop body of run
RunExceptHandler(history, e) == Append(history, RunErrorTurn(e))

\* conversation_history.append({"role": "tool", "tool_call_id": ..., "content": ...})
AppendToolTurn(history, tool_call_id, content) ==
    Append(history, Turn("tool", "tool", content, <<tool_call_id>>))

\* answers at the prompt of ask_user_confirmation that end its loop, and "^C"
ConfirmationAnswers == {"yes", "y", "ru:da", "no", "n", "ru:net", "^C"}

RunStart ==
    /\ pc = "idle"
    /\ agent = "main"
    /\ conversation_history' =
          <<Turn("system", "system", system_prompt, <<>>),
            Turn("user", "task", user_task, <<>>)>>
    /\ iteration' = 0
    /\ pc' = "loop"
    /\ UNCHANGED <<agent, requests, messages, response, blk, tool_results, result, raised,
                   executed, emitted, browser, prompts, last_error>>
    /\ UNCHANGED <<execVars, tabVars, truncVars, snapVars, pageVars, classVars, parkVars, confirmVars>>

RunRequestRaises ==
    /\ pc = "loop"
    /\ agent = "main"
    /\ WhileCondition(iteration)
    /\ iteration' = iteration + 1
    /\ requests' = requests + 1
    /\ conversation_history' = RunExceptHandler(conversation_history, "backend")
    /\ last_error' = iteration + 1
    /\ UNCHANGED <<agent, pc, messages, response, blk, tool_results, result, raised,
                   executed, emitted, browser, prompts>>
    /\ UNCHANGED <<execVars, tabVars, truncVars, snapVars, pageVars, classVars, parkVars, confirmVars>>

RunRequestReturns ==
    /\ pc = "loop"
    /\ agent = "main"
    /\ WhileCondition(iteration)
    /\ iteration' = iteration + 1
    /\ requests' = requests + 1
    /\ \E n \in 0..(MaxToolUses - emitted) :
       \E tool_calls \in ToolUseLists(MainUses, emitted, n) :
          LET content == ReplyText(requests + 1)
          IN  /\ emitted' = emitted + n
              /\ conversation_history' =
                    Append(conversation_history,
                           Turn("assistant", "assistant", content, tool_calls))
              /\ IF tool_calls = <<>>
                 THEN /\ result' = content
                      /\ pc' = "done"
                      /\ response' = NoResponse
                      /\ UNCHANGED blk
                 ELSE /\ response' = [stop_reason |-> "continue", text |-> content,
                                      tool_uses |-> tool_calls]
                      /\ blk' = 1
                      /\ pc' = "tools"
                      /\ UNCHANGED result
    /\ UNCHANGED <<agent, messages, tool_results, raised, executed, browser, prompts,
                   last_error>>
    /\ UNCHANGED <<execVars, tabVars, truncVars, snapVars, pageVars, classVars, parkVars, confirmVars>>

\* one tool call of the response: decode, security check, handler, tool turn
RunToolCall ==
    /\ pc = "tools"
    /\ agent = "main"
    /\ blk <= Len(response.tool_uses)
    /\ LET tool_call == response.tool_uses[blk]
           decoded == json_loads(tool_call.input)
           function_args == decoded.value
           next_pc == IF blk < Len(response.tool_uses) THEN "tools" ELSE "loop"
           next_blk == IF blk < Len(response.tool_uses) THEN blk + 1 ELSE 0
           next_response == IF blk < Len(response.tool_uses) THEN response ELSE NoResponse
       IN  IF decoded.raised
           THEN /\ conversation_history' =
                      RunExceptHandler(conversation_history, decoded.value)
                /\ last_error' = iteration
                /\ pc' = "loop"
                /\ response' = NoResponse
                /\ blk' = 0
                /\ UNCHANGED <<executed, prompts, raised>>
           ELSE \E ans \in ConfirmationAnswers :
                LET gated == tool_call.name = "click_element"
                                /\ parse_security_action(ActionDesc(function_args))
                IN  /\ ~gated => ans = "yes"
                    /\ prompts' = IF gated
                                  THEN Append(prompts, <<"security", ans, tool_call.id>>)
                                  ELSE prompts
                    /\ IF gated /\ ans = "^C"
                       THEN /\ raised' = TRUE
                            /\ pc' = "raised"
                            /\ response' = NoResponse
                            /\ blk' = 0
                            /\ UNCHANGED <<conversation_history, executed, last_error>>
                       ELSE IF tool_call.name = "click_element"
                               /\ ~ClickAllowed(ActionDesc(function_args), ans)
                       THEN /\ conversation_history' =
                                  AppendToolTurn(conversation_history, tool_call.id,
                                                 CancelledBySecurity)
                            /\ pc' = next_pc
                            /\ blk' = next_blk
                            /\ response' = next_response
                            /\ UNCHANGED <<executed, last_error, raised>>
                       ELSE /\ conversation_history' =
                                  AppendToolTurn(conversation_history, tool_call.id,
                                                 _execute_tool(tool_call.name,
                                                               function_args, Driver))
                            /\ executed' = Append(executed, tool_call.id)
                            /\ pc' = next_pc
                            /\ blk' = next_blk
                            /\ response' = next_response
                            /\ UNCHANGED <<last_error, raised>>
    /\ UNCHANGED <<agent, iteration, requests, messages, tool_results, result, emitted,
                   browser>>
    /\ UNCHANGED <<execVars, tabVars, truncVars, snapVars, pageVars, classVars, parkVars, confirmVars>>

----------------------------------------------------------------------------
(* Tabs: BrowserInterface.list_tabs / switch_to_tab / close_tab and the     *)
(* handlers switch_tab and close_tab of BrowserActions                      *)

\* at most this many tabs are open at a time
MaxTabs == 3

\* the session creates at most this many pages
MaxOpened == 4

\* seq[i] of Python for a list: a negative index counts from the end
PyValid(seq, i) == -Len(seq) <= i /\ i < Len(seq)
PyGet(seq, i) == IF i >= 0 THEN seq[i + 1] ELSE seq[Len(seq) + i + 1]

\* the list without the entry at zero-based index i
RemoveAt(seq, i) == SubSeq(seq, 1, i) \o SubSeq(seq, i + 2, Len(seq))

\* list_tabs: one entry per open page, "is_active": page == self._page
list_tabs(ps, active) ==
    [k \in 1..Len(ps) |-> [index |-> k - 1, page |-> ps[k], is_active |-> ps[k] = active]]

\* switch_to_tab: outcome and the active page afterwards
switch_to_tab(ps, active, tab_index) ==
    IF tab_index < 0 \/ tab_index >= Len(ps)
    THEN [raised |-> TRUE, value |-> "Invalid tab index", pages |-> ps, _page |-> active]
    ELSE [raised |-> FALSE, value |-> "", pages |-> ps, _page |-> ps[tab_index + 1]]

\* mutant: the only tab may be closed
OnlyTab_Unchecked(ps) == FALSE

\* if len(pages) == 1
OnlyTab(ps) == Len(ps) = 1

\* mutant: the active page is kept when its tab is closed
ActiveAfterClose_Kept(ps, active, tab_index) == active

\* "If closing active tab, switch to another"
ActiveAfterClose(ps, active, tab_index) ==
    LET page_to_close == ps[tab_index + 1]
        new_index == IF tab_index < Len(ps) - 1 THEN tab_index + 1 ELSE tab_index - 1
    IN  IF page_to_close = active THEN PyGet(ps, new_index) ELSE active

\* BrowserInterface.close_tab
Interface_close_tab(ps, active, tab_index) ==
    IF OnlyTab(ps)
    THEN [raised |-> TRUE, value |-> "Cannot close the only tab", pages |-> ps,
          _page |-> active]
    ELSE IF tab_index < 0 \/ tab_index >= Len(ps)
    THEN [raised |-> TRUE, value |-> "Invalid tab index", pages |-> ps, _page |-> active]
    ELSE [raised |-> FALSE, value |-> "", pages |-> RemoveAt(ps, tab_index),
          _page |-> ActiveAfterClose(ps, active, tab_index)]

\* BrowserActions.switch_tab: the string returned and the session afterwards
switch_tab(ps, active, tab_index) ==
    LET r == switch_to_tab(ps, active, tab_index)
    IN  IF r.raised
        THEN [out |-> FailurePrefix \o <<" ", "Failed to switch tab", ":", " ", r.value>>,
              pages |-> ps, _page |-> active]
        ELSE [out |-> OkMark \o <<" ", "Switched to tab", " ", ToString(tab_index)>>,
              pages |-> r.pages, _page |-> r._page]

\* BrowserActions.close_tab: the string returned and the session afterwards
close_tab(ps, active, tab_index) ==
    IF tab_index < Len(list_tabs(ps, active))
    THEN IF ~PyValid(list_tabs(ps, active), tab_index)
         THEN [out |-> FailurePrefix \o <<" ", "Failed to close tab", ":", " ", "IndexError">>,
               pages |-> ps, _page |-> active]
         ELSE LET r == Interface_close_tab(ps, active, tab_index)
              IN  IF r.raised
                  THEN [out |-> FailurePrefix
                                   \o <<" ", "Failed to close tab", ":", " ", r.value>>,
                        pages |-> ps, _page |-> active]
                  ELSE [out |-> OkMark \o <<" ", "Closed tab", " ", ToString(tab_index)>>,
                        pages |-> r.pages, _page |-> r._page]
    ELSE [out |-> FailurePrefix \o <<" ", "Invalid tab index", ":", " ", ToString(tab_index)>>,
          pages |-> ps, _page |-> active]

\* the tab indices a caller may pass
TabIndexes == (-2)..MaxTabs

NoTabCall == [op |-> "none", tab_index |-> 0, pages |-> <<>>, _page |-> 0, out |-> <<>>]

\* a launched session: self._page = self._context.pages[0]
TabsIdle ==
    /\ pages = <<1>>
    /\ _page = 1
    /\ opened = 1
    /\ tab_call = NoTabCall

\* a click on a link with target _blank: the new page is added after the
\* others and the active page stays
OpenTab ==
    /\ Len(pages) < MaxTabs
    /\ opened < MaxOpened
    /\ pages' = Append(pages, opened + 1)
    /\ opened' = opened + 1
    /\ tab_call' = NoTabCall
    /\ UNCHANGED _page
    /\ UNCHANGED <<loopVars, execVars, truncVars, snapVars, pageVars, classVars, parkVars, confirmVars>>

SwitchTab ==
    /\ \E tab_index \in TabIndexes :
          LET r == switch_tab(pages, _page, tab_index)
          IN  /\ pages' = r.pages
              /\ _page' = r._page
              /\ tab_call' = [op |-> "switch_tab", tab_index |-> tab_index,
                              pages |-> pages, _page |-> _page, out |-> r.out]
    /\ UNCHANGED opened
    /\ UNCHANGED <<loopVars, execVars, truncVars, snapVars, pageVars, classVars, parkVars, confirmVars>>

CloseTab ==
    /\ \E tab_index \in TabIndexes :
          LET r == close_tab(pages, _page, tab_index)
          IN  /\ pages' = r.pages
              /\ _page' = r._page
              /\ tab_call' = [op |-> "close_tab", tab_index |-> tab_index,
                              pages |-> pages, _page |-> _page, out |-> r.out]
    /\ UNCHANGED opened
    /\ UNCHANGED <<loopVars, execVars, truncVars, snapVars, pageVars, classVars, parkVars, confirmVars>>

----------------------------------------------------------------------------
(* Context budget: BrowserContext.capture_current_state and                 *)
(* _truncate_snapshot                                                       *)

\* A text is the list of its lines (str.split('\n'), never empty).  A line is
\* [len, omitted]: len characters; omitted = 0 for a line of page text and
\* k > 0 for the line "... [TRUNCATED: k lines omitted]".

\* at most this many lines in a snapshot
MaxLines == 3

\* line lengths of a snapshot
LineLens == {0, 1, 10, 38, 45, 50}

\* token budgets
TokenLimits == {2, 10, 12}

CHARS_PER_TOKEN == 4

TextLine(n) == [len |-> n, omitted |-> 0]

\* number of decimal digits of k
Digits(k) == IF k < 10 THEN 1 ELSE IF k < 100 THEN 2 ELSE 3

\* f"\n... [TRUNCATED: {k} lines omitted]": an empty line and the marker line
TruncatedMarker(k) == <<TextLine(0), [len |-> 31 + Digits(k), omitted |-> k]>>

RECURSIVE SumLen(_)
SumLen(lines) == IF lines = <<>> THEN 0 ELSE Head(lines).len + SumLen(Tail(lines))

\* len(snapshot): the characters of the lines and the newlines between them
TextLen(lines) == SumLen(lines) + Len(lines) - 1

RECURSIVE KeptLines_NoNewline(_, _, _, _)
\* mutant: the newline after a kept line is not counted
KeptLines_NoNewline(lines, k, current_chars, max_chars) ==
    IF k = Len(lines) THEN k
    ELSE IF current_chars + lines[k + 1].len > max_chars THEN k
    ELSE KeptLines_NoNewline(lines, k + 1, current_chars + lines[k + 1].len, max_chars)

RECURSIVE KeptLines(_, _, _, _)
\* the for loop: the number of lines appended before the break, counted
\* from k lines already kept with current_chars characters
KeptLines(lines, k, current_chars, max_chars) ==
    IF k = Len(lines) THEN k
    ELSE IF current_chars + lines[k + 1].len > max_chars THEN k
    ELSE KeptLines(lines, k + 1, current_chars + lines[k + 1].len + 1, max_chars)

_truncate_snapshot(lines, limit) ==
    LET max_chars == limit * CHARS_PER_TOKEN
        k == KeptLines(lines, 0, 0, max_chars)
    IN  IF TextLen(lines) <= max_chars
        THEN [snapshot |-> lines, truncated |-> FALSE]
        ELSE IF k = Len(lines)
        THEN [snapshot |-> lines, truncated |-> TRUE]
        ELSE [snapshot |-> SubSeq(lines, 1, k) \o TruncatedMarker(Len(lines) - k),
              truncated |-> TRUE]

capture_current_state(lines, limit) ==
    LET estimated_tokens == TextLen(lines) \div CHARS_PER_TOKEN
        t == _truncate_snapshot(lines, limit)
    IN  IF estimated_tokens > limit
        THEN [snapshot |-> t.snapshot, tokens_used |-> TextLen(t.snapshot) \div CHARS_PER_TOKEN,
              truncated |-> t.truncated]
        ELSE [snapshot |-> lines, tokens_used |-> estimated_tokens, truncated |-> FALSE]

NoCapture == [called |-> FALSE, snapshot |-> <<>>, tokens_used |-> 0, truncated |-> FALSE]

TruncIdle ==
    /\ snapshot = <<TextLine(0)>>
    /\ token_limit = 12
    /\ captured = NoCapture
    /\ truncated_once = NoCapture
    /\ truncated_twice = NoCapture

\* observe_page: state = self.context.capture_current_state()
Capture ==
    /\ ~captured.called
    /\ LET c == capture_current_state(snapshot, token_limit)
       IN  captured' = [called |-> TRUE, snapshot |-> c.snapshot,
                        tokens_used |-> c.tokens_used, truncated |-> c.truncated]
    /\ UNCHANGED <<snapshot, token_limit, truncated_once, truncated_twice>>
    /\ UNCHANGED <<loopVars, execVars, tabVars, snapVars, pageVars, classVars, parkVars, confirmVars>>

\* _truncate_snapshot applied to the snapshot
Truncate ==
    /\ ~truncated_once.called
    /\ LET t == _truncate_snapshot(snapshot, token_limit)
       IN  truncated_once' = [called |-> TRUE, snapshot |-> t.snapshot,
                              tokens_used |-> TextLen(t.snapshot) \div CHARS_PER_TOKEN,
                              truncated |-> t.truncated]
    /\ UNCHANGED <<snapshot, token_limit, captured, truncated_twice>>
    /\ UNCHANGED <<loopVars, execVars, tabVars, snapVars, pageVars, classVars, parkVars, confirmVars>>

\* _truncate_snapshot applied to the text it returned
TruncateAgain ==
    /\ truncated_once.called
    /\ ~truncated_twice.called
    /\ LET t == _truncate_snapshot(truncated_once.snapshot, token_limit)
       IN  truncated_twice' = [called |-> TRUE, snapshot |-> t.snapshot,
                               tokens_used |-> TextLen(t.snapshot) \div CHARS_PER_TOKEN,
                               truncated |-> t.truncated]
    /\ UNCHANGED <<snapshot, token_limit, captured, truncated_once>>
    /\ UNCHANGED <<loopVars, execVars, tabVars, snapVars, pageVars, classVars, parkVars, confirmVars>>

----------------------------------------------------------------------------
(* Snapshot rendering: PageVision.get_text_snapshot and _group_by_type      *)

\* An element is [type, text]: its classified type and the number of
\* characters of its text.  A rendered line is a record: the five header
\* lines, "[TYPE]" (kind "group"), "  idx. name hint" (kind "item", name
\* given by its number of characters) and "  ... (+n more)" (kind "more").

\* a group has at most this many elements more than its display limit
MaxOver == 2

\* text lengths of an element: the extraction script cuts texts at 200
TextLens == {0, 149, 150, 151, 200}

ImportantTypes ==
    {"product-card", "order-item", "heading", "navigation", "price", "badge", "cart-item"}

\* mutant: every type gets the short limit
limit_Short(element_type) == 15

\* "Show more items for important types"
limit(element_type) == IF element_type \in ImportantTypes THEN 30 ELSE 15

\* item.get('text', '')[:150]
name(text) == IF text < 150 THEN text ELSE 150

RECURSIVE TypeOrder(_, _)
\* the keys of grouped, in the order _group_by_type inserted them
TypeOrder(elems, seen) ==
    IF elems = <<>> THEN <<>>
    ELSE IF Head(elems).type \in seen THEN TypeOrder(Tail(elems), seen)
    ELSE <<Head(elems).type>> \o TypeOrder(Tail(elems), seen \cup {Head(elems).type})

\* grouped[element_type]
Group(elems, element_type) == SelectSeq(elems, LAMBDA e : e.type = element_type)

\* the lines appended for one group
GroupLines(element_type, items) ==
    LET shown == IF Len(items) < limit(element_type) THEN Len(items)
                 ELSE limit(element_type)
    IN  <<[kind |-> "group", type |-> element_type, idx |-> 0, chars |-> 0, n |-> 0]>>
            \o [idx \in 1..shown |->
                  [kind |-> "item", type |-> element_type, idx |-> idx,
                   chars |-> name(items[idx].text), n |-> 0]]
            \o (IF Len(items) > limit(element_type)
                THEN <<[kind |-> "more", type |-> element_type, idx |-> 0, chars |-> 0,
                        n |-> Len(items) - limit(element_type)]>>
                ELSE <<>>)

RECURSIVE AllGroupLines(_, _)
AllGroupLines(elems, types) ==
    IF types = <<>> THEN <<>>
    ELSE GroupLines(Head(types), Group(elems, Head(types)))
            \o AllGroupLines(elems, Tail(types))

HeaderLines ==
    [k \in 1..5 |-> [kind |-> "header", type |-> "", idx |-> k, chars |-> 0, n |-> 0]]

get_text_snapshot(elems) == HeaderLines \o AllGroupLines(elems, TypeOrder(elems, {}))

SnapIdle ==
    /\ elements = <<>>
    /\ rendered = <<>>

\* snapshot = self.vision.get_text_snapshot()
Render ==
    /\ rendered = <<>>
    /\ rendered' = get_text_snapshot(elements)
    /\ UNCHANGED elements
    /\ UNCHANGED <<loopVars, execVars, tabVars, truncVars, pageVars, classVars, parkVars, confirmVars>>

----------------------------------------------------------------------------
(* The page: documents, PageVision.find_elements                            *)

\* A document is the list of its element nodes below body, in document
\* order.  A node is a record: tag, parent (position of the parent node, 0
\* for body), role, own (the word its own text nodes hold, "" for none), len
\* (characters of its own text), visible (non-empty box, not hidden), href
\* and target (<<>> and "" when the attribute is absent) and marker (the
\* value of data-vision-discover, -1 when absent).

Node(tag, parent, role, own, len, visible, href, target) ==
    [tag |-> tag, parent |-> parent, role |-> role, own |-> own, len |-> len,
     visible |-> visible, href |-> href, target |-> target, marker |-> -1]

NoHref == <<>>

interactiveTags == {"button", "a", "input", "select", "textarea"}

\* String.toLowerCase on one word
toLowerCase(word) ==
    CASE word = "Submit" -> "submit"
      [] word = "Cancel" -> "cancel"
      [] word = "Next" -> "next"
      [] word = "More" -> "more"
      [] OTHER -> word

RECURSIVE IsInside(_, _, _)
\* node i is node a or one of its descendants
IsInside(d, i, a) ==
    IF i = a THEN TRUE
    ELSE IF d[i].parent = 0 THEN FALSE
    ELSE IsInside(d, d[i].parent, a)

Subtree(d, a) == {i \in 1..Len(d) : IsInside(d, i, a)}

RECURSIVE SumOwn(_, _)
SumOwn(d, S) ==
    IF S = {} THEN 0
    ELSE LET i == CHOOSE x \in S : TRUE IN d[i].len + SumOwn(d, S \ {i})

\* node.textContent.length
textLength(d, i) == SumOwn(d, Subtree(d, i))

\* textContent.includes(searchText), searchText already in lower case
hasMatch(d, i, searchText) ==
    \E j \in Subtree(d, i) : d[j].own # "" /\ toLowerCase(d[j].own) = searchText

\* the type filter of find_elements
matchesType(node, element_type) ==
    CASE element_type = "any" -> TRUE
      [] element_type = "button" -> node.tag = "button" \/ node.role = "button"
      [] element_type = "link" -> node.tag = "a" \/ node.role = "link"
      [] element_type = "input" -> node.tag \in {"input", "textarea", "select"}
      [] OTHER -> node.tag = element_type

\* mutant: no penalty for a text element inside an interactive element
NestingPenalty_None(d, i) == 0

\* "Penalize text-only elements inside interactive elements", in hundredths
NestingPenalty(d, i) ==
    IF d[i].tag \in {"span", "div", "p"} /\ d[i].parent # 0
          /\ d[d[i].parent].tag \in interactiveTags
    THEN 20000 ELSE 0

\* getPriority, in hundredths of a point
getPriority(d, i, searchText) ==
    (IF d[i].tag \in interactiveTags THEN 10000 ELSE 0)
    + (IF d[i].role \in {"button", "link"} THEN 8000 ELSE 0)
    + (IF d[i].own # "" /\ toLowerCase(d[i].own) = searchText THEN 5000 ELSE 0)
    - NestingPenalty(d, i)
    - (IF d[i].tag \in {"div", "span", "body", "html"} THEN 2000 ELSE 0)
    - (IF textLength(d, i) < 3000 THEN textLength(d, i) ELSE 3000)

RECURSIVE SortByPriority(_, _, _)
\* candidates.sort((a, b) => b.priority - a.priority): highest first, equal
\* priorities in document order
SortByPriority(d, S, searchText) ==
    IF S = {} THEN <<>>
    ELSE LET best == CHOOSE i \in S : \A j \in S :
                        \/ getPriority(d, i, searchText) > getPriority(d, j, searchText)
                        \/ /\ getPriority(d, i, searchText) = getPriority(d, j, searchText)
                           /\ i <= j
         IN  <<best>> \o SortByPriority(d, S \ {best}, searchText)

\* mutant: one match more than ten is kept
topMatches_Eleven(d, search_text, element_type) ==
    LET searchText == toLowerCase(search_text)
        candidates == {i \in 1..Len(d) : /\ hasMatch(d, i, searchText)
                                         /\ matchesType(d[i], element_type)
                                         /\ d[i].visible}
        sorted == SortByPriority(d, candidates, searchText)
    IN  SubSeq(sorted, 1, IF Len(sorted) < 11 THEN Len(sorted) ELSE 11)

\* candidates.slice(0, 10)
topMatches(d, search_text, element_type) ==
    LET searchText == toLowerCase(search_text)
        candidates == {i \in 1..Len(d) : /\ hasMatch(d, i, searchText)
                                         /\ matchesType(d[i], element_type)
                                         /\ d[i].visible}
        sorted == SortByPriority(d, candidates, searchText)
    IN  SubSeq(sorted, 1, IF Len(sorted) < 10 THEN Len(sorted) ELSE 10)

\* find_elements: the results, the selector '[data-vision-discover="idx"]'
\* given by idx
find_elements(d, search_text, element_type) ==
    LET top == topMatches(d, search_text, element_type)
    IN  [idx \in 1..Len(top) |->
            [selector |-> idx - 1, node |-> top[idx], tag |-> d[top[idx]].tag,
             priority |-> getPriority(d, top[idx], toLowerCase(search_text))]]

\* item.node.setAttribute('data-vision-discover', idx): the document afterwards
SetMarkers(d, results) ==
    [i \in 1..Len(d) |->
        IF \E k \in 1..Len(results) : results[k].node = i
        THEN [d[i] EXCEPT !.marker =
                 (CHOOSE k \in 1..Len(results) : results[k].node = i) - 1]
        ELSE d[i]]

NoCall == [op |-> "none", selector |-> -1, assigned |-> 0, stale |-> FALSE, target |-> 0,
           before |-> <<>>, acts |-> <<>>, out |-> <<>>]

SearchTexts == {"Submit", "Cancel", "Next", "More"}

ElementTypes == {"any", "button", "link"}

PageIdle ==
    /\ dom = <<>>
    /\ url = <<"/start">>
    /\ loads = 1
    /\ found = <<>>
    /\ issued = {}
    /\ stale = {}
    /\ last = NoCall

\* discover_element: found = self.context.discover_elements(search_text, type_filter)
Discover ==
    /\ \E search_text \in SearchTexts, element_type \in ElementTypes :
          LET results == find_elements(dom, search_text, element_type)
          IN  /\ found' = results
              /\ dom' = SetMarkers(dom, results)
              /\ issued' = issued \cup {results[k].selector : k \in 1..Len(results)}
    /\ last' = NoCall
    /\ UNCHANGED <<url, loads, stale>>
    /\ UNCHANGED <<loopVars, execVars, tabVars, truncVars, snapVars, classVars, parkVars, confirmVars>>

----------------------------------------------------------------------------
(* The action handlers on the page: click_element, type_text, navigate_url  *)

\* the page loads at most this many documents
MaxLoads == 3

\* selector values a caller may pass: '[data-vision-discover="0"]' and on
MaxSelector == 3

\* document.querySelector(selector): the first node in document order that
\* carries the marker, 0 for null
querySelector(d, selector) ==
    IF \E i \in 1..Len(d) : d[i].marker = selector
    THEN CHOOSE i \in 1..Len(d) :
            d[i].marker = selector /\ \A j \in 1..(i - 1) : d[j].marker # selector
    ELSE 0

\* element.target || '_self'
TargetOf(node) == IF node.target = "" THEN "_self" ELSE node.target

\* element.querySelector('a[href]'): the first link below the element, 0 for null
FirstLink(d, el) ==
    LET links == {j \in Subtree(d, el) \ {el} : d[j].tag = "a" /\ d[j].href # NoHref}
    IN  IF links = {} THEN 0 ELSE CHOOSE j \in links : \A k \in links : j <= k

\* check_link_script: the link the handler looks at, 0 when isLink is false
\* or the element is null
LinkInfo(d, el) ==
    IF el = 0 THEN 0
    ELSE IF d[el].tag = "a" /\ d[el].href # NoHref THEN el
    ELSE FirstLink(d, el)

\* "If it's a link and opens in same tab, use navigate_url instead"
DirectNavigation(d, el) ==
    /\ LinkInfo(d, el) # 0
    /\ TargetOf(d[LinkInfo(d, el)]) = "_self"
    /\ ~startswith(d[LinkInfo(d, el)].href, <<"javascript:">>)

\* the document a URL serves: a button "Submit" and a link "More"
Site(u) ==
    << Node("button", 0, "none", "Submit", 6, TRUE, NoHref, ""),
       Node("a", 0, "none", "More", 4, TRUE, <<"/page2">>, "") >>

Act(kind, node, href) == [kind |-> kind, node |-> node, href |-> href]

\* BrowserActions.click_element: the driver operations it performs, the page
\* afterwards and the string it returns
click_element(d, u, selector, description) ==
    LET el == querySelector(d, selector)
    IN  IF DirectNavigation(d, el)
        THEN LET href == d[LinkInfo(d, el)].href
             IN  [acts |-> <<Act("goto", 0, href)>>, dom |-> Site(href), url |-> href,
                  loaded |-> TRUE,
                  out |-> OkMark \o <<" ", "Navigated via link", ":", " ">> \o description]
        ELSE IF el = 0
        THEN [acts |-> <<>>, dom |-> d, url |-> u, loaded |-> FALSE,
              out |-> FailurePrefix \o <<" ", "Failed to click", " ">> \o description]
        ELSE [acts |-> <<Act("click", el, NoHref)>>, dom |-> d, url |-> u,
              loaded |-> FALSE,
              out |-> OkMark \o <<" ", "Clicked", ":", " ">> \o description]

\* BrowserActions.type_text: page.fill on the first node the selector matches
type_text(d, u, selector, text) ==
    LET el == querySelector(d, selector)
    IN  IF el = 0
        THEN [acts |-> <<>>, dom |-> d, url |-> u, loaded |-> FALSE,
              out |-> FailurePrefix \o <<" ", "Failed to type", ":", " ", "Timeout">>]
        ELSE [acts |-> <<Act("fill", el, NoHref)>>, dom |-> d, url |-> u,
              loaded |-> FALSE,
              out |-> OkMark \o <<" ", "Typed into field", ":", " ">> \o text]

\* BrowserActions.navigate_url
navigate_url(d, u, target_url) ==
    [acts |-> <<Act("goto", 0, target_url)>>, dom |-> Site(target_url), url |-> target_url,
     loaded |-> TRUE, out |-> OkMark \o <<" ", "Navigated to", ":", " ">> \o target_url]

\* the node the discovery call right before the action gave the selector to
AssignedTo(selector) ==
    IF \E k \in 1..Len(found) : found[k].selector = selector
    THEN found[CHOOSE k \in 1..Len(found) : found[k].selector = selector].node
    ELSE 0

\* the state after a handler call r of operation op with the given selector
Acted(op, selector, r) ==
    /\ dom' = r.dom
    /\ url' = r.url
    /\ loads' = IF r.loaded THEN loads + 1 ELSE loads
    /\ issued' = IF r.loaded THEN {} ELSE issued
    /\ stale' = IF r.loaded THEN stale \cup issued ELSE stale
    /\ found' = <<>>
    /\ last' = [op |-> op, selector |-> selector, assigned |-> AssignedTo(selector),
                stale |-> selector \in stale, target |-> querySelector(dom, selector),
                before |-> dom, acts |-> r.acts, out |-> r.out]

ClickElement ==
    /\ \E selector \in 0..MaxSelector :
          LET r == click_element(dom, url, selector, <<"it">>)
          IN  /\ r.loaded => loads < MaxLoads
              /\ Acted("click_element", selector, r)
    /\ UNCHANGED <<loopVars, execVars, tabVars, truncVars, snapVars, classVars, parkVars, confirmVars>>

TypeText ==
    /\ \E selector \in 0..MaxSelector :
          Acted("type_text", selector, type_text(dom, url, selector, <<"hello">>))
    /\ UNCHANGED <<loopVars, execVars, tabVars, truncVars, snapVars, classVars, parkVars, confirmVars>>

NavigateUrl ==
    /\ loads < MaxLoads
    /\ Acted("navigate_url", -1, navigate_url(dom, url, <<"/page2">>))
    /\ UNCHANGED <<loopVars, execVars, tabVars, truncVars, snapVars, classVars, parkVars, confirmVars>>

----------------------------------------------------------------------------
(* The confirmation signal from request_confirmation to _handle_confirmation *)

\* no confirmation has been requested
ConfirmIdle ==
    /\ confirmation = [risk_level |-> <<>>, action_description |-> <<>>, answer |-> ""]
    /\ confirmed = [called |-> FALSE, risk_level |-> <<>>, action_description |-> <<>>,
                    out |-> <<>>]

\* _handle_confirmation(request_confirmation(action_description, risk_level)):
\* what the operator is shown and the string returned on the answer
HandleConfirmation ==
    /\ ~confirmed.called
    /\ LET signal == request_confirmation(confirmation.action_description,
                                          confirmation.risk_level)
           parsed == ParseConfirmation(signal)
           r == _handle_confirmation(signal, confirmation.answer)
       IN  /\ r.kind # "again"
           /\ confirmed' = [called |-> TRUE, risk_level |-> parsed.risk_level,
                            action_description |-> parsed.action_description,
                            out |-> r.value]
    /\ UNCHANGED confirmation
    /\ UNCHANGED <<loopVars, execVars, tabVars, truncVars, snapVars, pageVars, classVars,
                   parkVars>>

----------------------------------------------------------------------------
(* Tabs with documents: switch_tab between discovery and action             *)

NotObserved == [called |-> FALSE, active |-> 0, rows |-> <<>>]

\* one open page, nothing in the background
ParkedIdle ==
    /\ parked = <<>>
    /\ observed = NotObserved

\* BrowserActions.switch_tab on pages that hold documents: self.browser.page
\* is the page switched to, and every handler after it works on its document
SwitchTabOnPage ==
    /\ \E tab_index \in TabIndexes :
          LET r == switch_tab(pages, _page, tab_index)
          IN  /\ pages' = r.pages
              /\ _page' = r._page
              /\ tab_call' = [op |-> "switch_tab", tab_index |-> tab_index,
                              pages |-> pages, _page |-> _page, out |-> r.out]
              /\ IF r._page = _page
                 THEN UNCHANGED <<dom, url, parked, issued, stale, found>>
                 ELSE /\ dom' = parked[r._page].dom
                      /\ url' = parked[r._page].url
                      /\ parked' = [q \in (DOMAIN parked \cup {_page}) \ {r._page} |->
                                       IF q = _page THEN [dom |-> dom, url |-> url]
                                       ELSE parked[q]]
                      /\ stale' = stale \cup issued
                      /\ issued' = {}
                      /\ found' = <<>>
    /\ last' = NoCall
    /\ UNCHANGED <<opened, loads, observed>>
    /\ UNCHANGED <<loopVars, execVars, truncVars, snapVars, classVars, confirmVars>>

\* page.url of an open page
TabUrl(q) == IF q = _page THEN url ELSE parked[q].url

\* "Add tabs information automatically" of observe_page: the rows of the tab
\* list, current for the row that gets the arrow; no list for a single tab
observe_page(ps, active) ==
    LET tabs == list_tabs(ps, active)
        current_url == TabUrl(active)
        hits == {idx \in 0..(Len(tabs) - 1) : TabUrl(tabs[idx + 1].page) = current_url}
        current_idx == IF hits = {} THEN 0 ELSE CHOOSE h \in hits : \A g \in hits : h <= g
    IN  IF Len(tabs) > 1
        THEN [k \in 1..Len(tabs) |-> [index |-> k - 1, current |-> k - 1 = current_idx]]
        ELSE <<>>

\* BrowserActions.observe_page; the page state in front of the tab list is
\* the one Capture models
ObservePage ==
    /\ observed' = [called |-> TRUE,
                    active |-> (CHOOSE k \in 1..Len(pages) : pages[k] = _page) - 1,
                    rows |-> observe_page(pages, _page)]
    /\ UNCHANGED parked
    /\ UNCHANGED <<loopVars, execVars, tabVars, truncVars, snapVars, pageVars, classVars,
                   confirmVars>>

----------------------------------------------------------------------------
(* The element classifier: PageVision._extract_interactive_elements         *)

\* An element is a record: tag, className (the class attribute in lower
\* case, as its words and the "-" and " " between them, <<>> when absent),
\* role ("none" when absent), attrs (the names of its other attributes),
\* inputType, text (what the fallback chain innerText .. name yields, under
\* 200 characters), and the computed style: display, visibility, opacity,
\* width and height of the bounding box.

\* className.includes(word)
includes(className, word) == contains(className, <<word>>)

\* document.querySelectorAll(selectors.join(', ')) finds the element
selectors(e) ==
    \/ e.tag \in {"button", "input", "select", "textarea", "form", "label", "article",
                  "h1", "h2", "h3", "h4", "nav", "menu", "aside"}
    \/ e.tag = "a" /\ "href" \in e.attrs
    \/ e.role \in {"button", "link", "tab", "menuitem", "option"}
    \/ e.attrs \cap {"onclick", "contenteditable", "data-product-id", "data-testid",
                     "data-qa"} # {}
    \/ \E w \in {"card", "item", "product", "order", "cart", "checkout", "badge", "tag",
                  "label", "modal", "popup", "dialog", "dropdown"} :
          includes(e.className, w)
    \/ e.tag \in {"p", "span", "div"} /\ includes(e.className, "price")
    \/ e.tag = "img" /\ "alt" \in e.attrs
    \/ e.tag \in {"ul", "section"} /\ e.className # <<>>

isHidden(e) == e.display = "none" \/ e.visibility = "hidden" \/ e.opacity = "0"

isFormElement(e) == e.tag \in {"input", "textarea", "select", "form"}

hasSize(e) == e.width > 0 /\ e.height > 0

\* mutant: the class name is not looked at
ProductCard_ArticleOnly(e, type) ==
    IF type = "article" THEN "product-card" ELSE type

\* "Product cards"
ProductCard(e, type) ==
    IF type = "article" \/ includes(e.className, "card") \/ includes(e.className, "product")
          \/ "data-product-id" \in e.attrs
    THEN "product-card" ELSE type

\* "Determine element type": each rule overwrites the type of the rules before
ElementType(e) ==
    LET c == e.className
        t1 == IF e.tag = "a" THEN "link" ELSE e.tag
        t2 == IF t1 = "input"
              THEN (IF e.inputType \in {"submit", "button"} THEN "button" ELSE "input")
              ELSE t1
        t3 == IF "contenteditable" \in e.attrs THEN "input" ELSE t2
        t4 == IF t3 = "img" /\ "alt" \in e.attrs THEN "image" ELSE t3
        t5 == IF t4 = "nav" \/ e.role = "navigation" THEN "navigation" ELSE t4
        t6 == IF t5 = "menu" \/ e.role = "menu" THEN "menu" ELSE t5
        t7 == IF e.role = "menuitem" THEN "menu-item" ELSE t6
        t8 == IF e.role = "tab" THEN "tab" ELSE t7
        t9 == IF t8 = "ul" /\ c # <<>> THEN "list" ELSE t8
        t10 == IF t9 = "li" /\ includes(c, "item") THEN "list-item" ELSE t9
        t11 == IF t10 = "section" /\ c # <<>> THEN "section" ELSE t10
        t12 == IF t11 = "aside" THEN "sidebar" ELSE t11
        t13 == ProductCard(e, t12)
        t14 == IF includes(c, "order") /\ ~includes(c, "button") THEN "order-item" ELSE t13
        t15 == IF includes(c, "cart") /\ ~includes(c, "button") THEN "cart-item" ELSE t14
        t16 == IF includes(c, "modal") \/ includes(c, "popup") \/ includes(c, "dialog")
                    \/ e.role = "dialog"
               THEN "modal" ELSE t15
        t17 == IF includes(c, "badge") \/ includes(c, "tag") THEN "badge" ELSE t16
        t18 == IF includes(c, "label") /\ t17 # "label" THEN "tag" ELSE t17
        t19 == IF includes(c, "price") \/ "data-price" \in e.attrs THEN "price" ELSE t18
    IN  IF includes(c, "dropdown") \/ e.role = "listbox" THEN "dropdown" ELSE t19

importantTypes ==
    {"form", "label", "h1", "h2", "h3", "h4", "heading", "navigation", "section", "modal",
     "price", "badge"}

\* the forEach body of _extract_interactive_elements for an element the
\* selector list finds: hidden when it returns at the visibility check,
\* emitted when it pushes a record
_extract_interactive_elements(e) ==
    LET type == ElementType(e)
        heading == type \in {"h1", "h2", "h3", "h4"}
    IN  IF ~selectors(e)
        THEN [called |-> TRUE, hidden |-> FALSE, emitted |-> FALSE, type |-> "", text |-> <<>>]
        ELSE IF isHidden(e) \/ (~isFormElement(e) /\ ~hasSize(e))
        THEN [called |-> TRUE, hidden |-> TRUE, emitted |-> FALSE, type |-> "", text |-> <<>>]
        ELSE IF e.text = <<>> /\ ~isFormElement(e) /\ type \notin importantTypes
        THEN [called |-> TRUE, hidden |-> FALSE, emitted |-> FALSE, type |-> "", text |-> <<>>]
        ELSE [called |-> TRUE, hidden |-> FALSE, emitted |-> TRUE,
              type |-> IF heading THEN "heading" ELSE type,
              text |-> IF type = "textarea" /\ e.text = <<>> THEN <<"<empty textarea>">>
                       ELSE IF heading THEN <<"[", type, "]", " ">> \o e.text
                       ELSE e.text]

\* "Check visibility" of find_elements: the walker skips the node
DiscoveryHidden(e) ==
    e.display = "none" \/ e.visibility = "hidden" \/ e.width = 0 \/ e.height = 0

ClassifyIdle ==
    /\ elem = [tag |-> "body"]
    /\ extracted = [called |-> FALSE, hidden |-> FALSE, emitted |-> FALSE, type |-> "",
                    text |-> <<>>]
    /\ discovered = [called |-> FALSE, hidden |-> FALSE]

\* get_text_snapshot: elements = self._extract_interactive_elements()
Extract ==
    /\ ~extracted.called
    /\ extracted' = _extract_interactive_elements(elem)
    /\ UNCHANGED <<elem, discovered>>
    /\ UNCHANGED <<loopVars, execVars, tabVars, truncVars, snapVars, pageVars, parkVars, confirmVars>>

\* find_elements reaches the element with a search text it matches
Find ==
    /\ ~discovered.called
    /\ discovered' = [called |-> TRUE, hidden |-> DiscoveryHidden(elem)]
    /\ UNCHANGED <<elem, extracted>>
    /\ UNCHANGED <<loopVars, execVars, tabVars, truncVars, snapVars, pageVars, parkVars, confirmVars>>

----------------------------------------------------------------------------
(* Specification of the two loops *)

NotCalled == [called |-> FALSE, raised |-> FALSE, value |-> <<>>]

\* no task has run
LoopIdle ==
    /\ pc = "idle"
    /\ iteration = 0
    /\ requests = 0
    /\ messages = <<>>
    /\ conversation_history = <<>>
    /\ response = NoResponse
    /\ blk = 0
    /\ tool_results = <<>>
    /\ result = <<>>
    /\ raised = FALSE
    /\ executed = <<>>
    /\ emitted = 0
    /\ prompts = <<>>
    /\ last_error = 0

ExecIdle ==
    /\ ex_tool = "observe_page"
    /\ ex_kwargs = <<>>
    /\ ex_driver = "ok"
    /\ ex_out = NotCalled

Init ==
    /\ agent \in {"core", "main"}
    /\ browser \in {"alive", "dead"}
    /\ LoopIdle
    /\ ConfirmIdle
    /\ ParkedIdle
    /\ ClassifyIdle
    /\ ExecIdle
    /\ TabsIdle
    /\ TruncIdle
    /\ SnapIdle
    /\ PageIdle

Next ==
    \/ StartTask
    \/ RequestRaises
    \/ RequestReturns
    \/ ExecuteTool
    \/ NoToolResults
    \/ MaxIterationsReached
    \/ RunStart
    \/ RunRequestRaises
    \/ RunRequestReturns
    \/ RunToolCall

Spec == Init /\ [][Next]_vars

----------------------------------------------------------------------------
(* Specification of BrowserActions.execute as a function of its inputs *)

\* every parameter name of a handler, the two parameters of execute, and a
\* name no handler has
Keys ==
    UNION {_tools[t].required \cup _tools[t].optional : t \in DOMAIN _tools}
        \cup ExecuteParams \cup {"bogus"}

ArgValues == {<<"x">>, <<":", "y">>}

RECURSIVE KeySets(_)
\* the sets of at most n keys
KeySets(n) ==
    IF n = 0 THEN {{}}
    ELSE KeySets(n - 1) \cup {S \cup {k} : S \in KeySets(n - 1), k \in Keys}

ToolNames == DOMAIN _tools \cup {"interact_click"}

InitExec ==
    /\ ex_tool \in ToolNames
    /\ \E K \in KeySets(MaxKwargs) : ex_kwargs \in [K -> ArgValues]
    /\ ex_driver \in {"ok", "throws"}
    /\ ex_out = NotCalled
    /\ agent = "none"
    /\ browser = "alive"
    /\ LoopIdle
    /\ ConfirmIdle
    /\ ParkedIdle
    /\ ClassifyIdle
    /\ TabsIdle
    /\ TruncIdle
    /\ SnapIdle
    /\ PageIdle

\* result = self.actions.execute(tool_name, **tool_args)
Execute ==
    /\ ~ex_out.called
    /\ LET r == execute(ex_tool, ex_kwargs, ex_driver)
       IN  ex_out' = [called |-> TRUE, raised |-> r.raised, value |-> r.value]
    /\ UNCHANGED <<ex_tool, ex_kwargs, ex_driver>>
    /\ UNCHANGED loopVars
    /\ UNCHANGED <<tabVars, truncVars, snapVars, pageVars, classVars, parkVars, confirmVars>>

NextExec == Execute

SpecExec == InitExec /\ [][NextExec]_vars

----------------------------------------------------------------------------
(* Specification of a launched session whose tabs are switched and closed *)

InitTabs ==
    /\ agent = "none"
    /\ browser = "alive"
    /\ LoopIdle
    /\ ConfirmIdle
    /\ ParkedIdle
    /\ ClassifyIdle
    /\ ExecIdle
    /\ TabsIdle
    /\ TruncIdle
    /\ SnapIdle
    /\ PageIdle

NextTabs ==
    \/ OpenTab
    \/ SwitchTab
    \/ CloseTab

SpecTabs == InitTabs /\ [][NextTabs]_vars

----------------------------------------------------------------------------
(* Specification of the context budgeter as a function of text and budget *)

RECURSIVE Texts(_)
\* the texts of at most n lines
Texts(n) ==
    IF n = 1 THEN {<<TextLine(l)>> : l \in LineLens}
    ELSE Texts(n - 1) \cup {Append(t, TextLine(l)) : t \in Texts(n - 1), l \in LineLens}

InitTrunc ==
    /\ snapshot \in Texts(MaxLines)
    /\ token_limit \in TokenLimits
    /\ captured = NoCapture
    /\ truncated_once = NoCapture
    /\ truncated_twice = NoCapture
    /\ agent = "none"
    /\ browser = "alive"
    /\ LoopIdle
    /\ ConfirmIdle
    /\ ParkedIdle
    /\ ClassifyIdle
    /\ ExecIdle
    /\ TabsIdle
    /\ SnapIdle
    /\ PageIdle

NextTrunc ==
    \/ Capture
    \/ Truncate
    \/ TruncateAgain

SpecTrunc == InitTrunc /\ [][NextTrunc]_vars

----------------------------------------------------------------------------
(* Specification of the snapshot renderer as a function of the elements *)

\* group sizes: none, one, and the sizes around the display limit
GroupSizes(element_type) ==
    {0, 1} \cup ((limit(element_type) - 1)..(limit(element_type) + MaxOver))

\* a page of a headings and b buttons, taken in turn while both last; the
\* text of the k-th element has lens[1] characters for odd k, lens[2] for even k
ElementList(a, b, lens) ==
    [k \in 1..(a + b) |->
        [type |-> IF k <= 2 * a /\ k <= 2 * b
                  THEN (IF k % 2 = 1 THEN "heading" ELSE "button")
                  ELSE (IF a > b THEN "heading" ELSE "button"),
         text |-> lens[2 - (k % 2)]]]

InitSnap ==
    /\ \E a \in GroupSizes("heading"), b \in GroupSizes("button"),
          lens \in [1..2 -> TextLens] : elements = ElementList(a, b, lens)
    /\ rendered = <<>>
    /\ agent = "none"
    /\ browser = "alive"
    /\ LoopIdle
    /\ ConfirmIdle
    /\ ParkedIdle
    /\ ClassifyIdle
    /\ ExecIdle
    /\ TabsIdle
    /\ TruncIdle
    /\ PageIdle

NextSnap == Render

SpecSnap == InitSnap /\ [][NextSnap]_vars

----------------------------------------------------------------------------
(* Specification of discovery on a page with a nested element *)

\* own text lengths of the nested element beyond the search word
ChildLens == {6, 3500}

\* an interactive element holding a span, div or p with the text "Submit",
\* followed by a button "Cancel"
DocNest(ptag, prole, pown, ctag, crole, clen, cvisible) ==
    << Node(ptag, 0, prole, IF pown THEN "Submit" ELSE "", IF pown THEN 6 ELSE 0, TRUE,
            NoHref, ""),
       Node(ctag, 1, crole, "Submit", clen, cvisible, NoHref, ""),
       Node("button", 0, "none", "Cancel", 6, TRUE, NoHref, "") >>

NestDocs ==
    { DocNest(ptag, prole, pown, ctag, crole, clen, cvisible) :
        ptag \in interactiveTags, prole \in {"none", "button", "link"}, pown \in BOOLEAN,
        ctag \in {"span", "div", "p"}, crole \in {"none", "button", "link"},
        clen \in ChildLens, cvisible \in BOOLEAN }

InitRank ==
    /\ dom \in NestDocs
    /\ url = <<"/start">>
    /\ loads = 1
    /\ found = <<>>
    /\ issued = {}
    /\ stale = {}
    /\ last = NoCall
    /\ agent = "none"
    /\ browser = "alive"
    /\ LoopIdle
    /\ ConfirmIdle
    /\ ParkedIdle
    /\ ClassifyIdle
    /\ ExecIdle
    /\ TabsIdle
    /\ TruncIdle
    /\ SnapIdle

NextRank == Discover

SpecRank == InitRank /\ [][NextRank]_vars

----------------------------------------------------------------------------
(* Specification of discovery and actions on a page across navigations *)

\* a div holding the links "Next" and "More"
DocLinks(href1, target1, href2, target2) ==
    << Node("div", 0, "none", "", 0, TRUE, NoHref, ""),
       Node("a", 1, "none", "Next", 4, TRUE, href1, target1),
       Node("a", 1, "none", "More", 4, TRUE, href2, target2) >>

Hrefs == {<<"/page2">>, <<"javascript:", "void(0)">>}

Targets == {"", "_self", "_blank"}

StartDocs ==
    { DocLinks(href1, target1, href2, target2) :
        href1 \in Hrefs, target1 \in Targets, href2 \in Hrefs, target2 \in Targets }
    \cup { DocNest("button", "none", FALSE, "span", "none", 6, TRUE) }

InitPage ==
    /\ dom \in StartDocs
    /\ url = <<"/start">>
    /\ loads = 1
    /\ found = <<>>
    /\ issued = {}
    /\ stale = {}
    /\ last = NoCall
    /\ agent = "none"
    /\ browser = "alive"
    /\ LoopIdle
    /\ ConfirmIdle
    /\ ParkedIdle
    /\ ClassifyIdle
    /\ ExecIdle
    /\ TabsIdle
    /\ TruncIdle
    /\ SnapIdle

NextPage ==
    \/ Discover
    \/ ClickElement
    \/ TypeText
    \/ NavigateUrl

SpecPage == InitPage /\ [][NextPage]_vars

----------------------------------------------------------------------------
(* Specification of discovery on a page with many matching elements *)

\* at most this many elements of one kind on the page
MaxSame == 4

\* a page of a spans, b buttons and c links with role link, in this order,
\* each with the text "Submit"
DocList(a, b, c) ==
    [k \in 1..(a + b + c) |->
        IF k <= a THEN Node("span", 0, "none", "Submit", 6, TRUE, NoHref, "")
        ELSE IF k <= a + b THEN Node("button", 0, "none", "Submit", 6, TRUE, NoHref, "")
        ELSE Node("a", 0, "link", "Submit", 6, TRUE, <<"/page2">>, "")]

\* how many elements of one kind the page has: none, or about the most
SameCounts == {0, MaxSame - 1, MaxSame}

InitTop ==
    /\ \E a \in SameCounts, b \in SameCounts, c \in SameCounts : dom = DocList(a, b, c)
    /\ url = <<"/start">>
    /\ loads = 1
    /\ found = <<>>
    /\ issued = {}
    /\ stale = {}
    /\ last = NoCall
    /\ agent = "none"
    /\ browser = "alive"
    /\ LoopIdle
    /\ ConfirmIdle
    /\ ParkedIdle
    /\ ClassifyIdle
    /\ ExecIdle
    /\ TabsIdle
    /\ TruncIdle
    /\ SnapIdle

NextTop == Discover

SpecTop == InitTop /\ [][NextTop]_vars

----------------------------------------------------------------------------
(* Specification of the classifier and discovery on one element *)

Tags == {"div", "span", "input", "a", "article", "h2"}

ClassNames ==
    { <<>>, <<"card">>, <<"product", "-", "card">>, <<"product", "-", "price">>,
      <<"order", "-", "card">>, <<"card", " ", "cart", "-", "button">>,
      <<"card", "-", "badge">>, <<"product", " ", "modal">>, <<"item">>,
      <<"product", "-", "label">> }

Roles == {"none", "dialog", "listbox"}

AttrSets == {{}, {"data-price"}, {"href"}}

PageElements ==
    [tag : Tags, className : ClassNames, role : Roles, attrs : AttrSets,
     inputType : {"text"}, text : {<<>>, <<"Buy">>},
     display : {"block", "none"}, visibility : {"visible", "hidden"},
     opacity : {"1", "0"}, width : {0, 120}, height : {0, 40}]

InitClassify ==
    /\ elem \in PageElements
    /\ extracted = [called |-> FALSE, hidden |-> FALSE, emitted |-> FALSE, type |-> "",
                    text |-> <<>>]
    /\ discovered = [called |-> FALSE, hidden |-> FALSE]
    /\ agent = "none"
    /\ browser = "alive"
    /\ LoopIdle
    /\ ConfirmIdle
    /\ ParkedIdle
    /\ ExecIdle
    /\ TabsIdle
    /\ TruncIdle
    /\ SnapIdle
    /\ PageIdle

NextClassify ==
    \/ Extract
    \/ Find

SpecClassify == InitClassify /\ [][NextClassify]_vars

----------------------------------------------------------------------------
(* Specification of a session: one agent, task after task, resets between   *)

next_task == <<"another task">>

\* the locals of a task and the record of what it did, as a new call finds them
NewCall ==
    /\ iteration' = 0
    /\ requests' = 0
    /\ response' = NoResponse
    /\ blk' = 0
    /\ tool_results' = <<>>
    /\ result' = <<>>
    /\ raised' = FALSE
    /\ executed' = <<>>
    /\ emitted' = 0
    /\ prompts' = <<>>
    /\ last_error' = 0
    /\ UNCHANGED <<agent, browser>>
    /\ UNCHANGED <<execVars, tabVars, truncVars, snapVars, pageVars, classVars, parkVars, confirmVars>>

\* mutant: the task is appended to the conversation of the task before
NextTask_Appends ==
    /\ pc = "done"
    /\ agent = "core"
    /\ messages' = Append(messages, Turn("user", "task", next_task, <<>>))
    /\ pc' = "loop"
    /\ UNCHANGED conversation_history
    /\ NewCall

\* execute_task called again on the same AgentCore
NextTask ==
    /\ pc = "done"
    /\ agent = "core"
    /\ messages' = <<Turn("user", "task", next_task, <<>>)>>
    /\ pc' = "loop"
    /\ UNCHANGED conversation_history
    /\ NewCall

\* run called again on the same MainAgent
RunNextTask ==
    /\ pc = "done"
    /\ agent = "main"
    /\ conversation_history' =
          <<Turn("system", "system", system_prompt, <<>>),
            Turn("user", "task", next_task, <<>>)>>
    /\ pc' = "loop"
    /\ UNCHANGED messages
    /\ NewCall

\* AgentCore.reset
reset ==
    /\ pc = "done"
    /\ agent = "core"
    /\ messages' = <<>>
    /\ pc' = "idle"
    /\ UNCHANGED conversation_history
    /\ NewCall

\* MainAgent.reset_conversation
reset_conversation ==
    /\ pc = "done"
    /\ agent = "main"
    /\ conversation_history' = <<Turn("system", "system", system_prompt, <<>>)>>
    /\ pc' = "idle"
    /\ UNCHANGED messages
    /\ NewCall

NextSession ==
    \/ Next
    \/ NextTask
    \/ RunNextTask
    \/ reset
    \/ reset_conversation

SpecSession == Init /\ [][NextSession]_vars

----------------------------------------------------------------------------
(* Specification of discovery and actions on the pages of two tabs *)

\* a page with a button and an input field
DocForm(word) ==
    << Node("button", 0, "none", word, 6, TRUE, NoHref, ""),
       Node("input", 0, "none", "", 0, TRUE, NoHref, "") >>

InitTabPage ==
    /\ pages = <<1, 2>>
    /\ _page = 1
    /\ opened = 2
    /\ tab_call = NoTabCall
    /\ dom \in {DocForm("Submit"), DocNest("button", "none", FALSE, "span", "none", 6, TRUE)}
    /\ url = <<"/start">>
    /\ parked \in {[q \in {2} |-> [dom |-> d, url |-> <<"/page2">>]] :
                      d \in {DocForm("Cancel"), DocForm("Submit")}}
    /\ observed = NotObserved
    /\ loads = 1
    /\ found = <<>>
    /\ issued = {}
    /\ stale = {}
    /\ last = NoCall
    /\ agent = "none"
    /\ browser = "alive"
    /\ LoopIdle
    /\ ConfirmIdle
    /\ ExecIdle
    /\ TruncIdle
    /\ SnapIdle
    /\ ClassifyIdle

NextTabPage ==
    \/ Discover
    \/ SwitchTabOnPage
    \/ ClickElement
    \/ TypeText

SpecTabPage == InitTabPage /\ [][NextTabPage]_vars

----------------------------------------------------------------------------
(* Specification of the confirmation signal as a function of its arguments *)

\* an action description has at most this many words and colons
MaxDesc == 3

RiskLevels == {<<"financial">>, <<"deletion">>, <<"irreversible">>, <<"other">>}

RECURSIVE Descriptions(_)
Descriptions(n) ==
    IF n = 1 THEN {<<w>> : w \in {"pay", ":", "now"}}
    ELSE Descriptions(n - 1)
            \cup {Append(t, w) : t \in Descriptions(n - 1), w \in {"pay", ":", "now"}}

InitConfirm ==
    /\ confirmation \in [risk_level : RiskLevels, action_description : Descriptions(MaxDesc),
                          answer : {"yes", "y", "no", "n", "^C"}]
    /\ confirmed = [called |-> FALSE, risk_level |-> <<>>, action_description |-> <<>>,
                    out |-> <<>>]
    /\ agent = "none"
    /\ browser = "alive"
    /\ LoopIdle
    /\ ExecIdle
    /\ TabsIdle
    /\ TruncIdle
    /\ SnapIdle
    /\ PageIdle
    /\ ClassifyIdle
    /\ ParkedIdle

NextConfirm == HandleConfirmation

SpecConfirm == InitConfirm /\ [][NextConfirm]_vars

----------------------------------------------------------------------------
(* Specification of observe_page on a session of several tabs *)

TabUrls == {<<"/start">>, <<"/page2">>}

InitObserve ==
    /\ \E n \in 2..MaxTabs :
          /\ pages = [k \in 1..n |-> k]
          /\ opened = n
          /\ parked \in [2..n -> [dom : {DocForm("Submit")}, url : TabUrls]]
    /\ _page = 1
    /\ tab_call = NoTabCall
    /\ dom = DocForm("Submit")
    /\ url \in TabUrls
    /\ observed = NotObserved
    /\ loads = 1
    /\ found = <<>>
    /\ issued = {}
    /\ stale = {}
    /\ last = NoCall
    /\ agent = "none"
    /\ browser = "alive"
    /\ LoopIdle
    /\ ConfirmIdle
    /\ ExecIdle
    /\ TruncIdle
    /\ SnapIdle
    /\ ClassifyIdle

NextObserve ==
    \/ SwitchTabOnPage
    \/ ObservePage

SpecObserve == InitObserve /\ [][NextObserve]_vars

----------------------------------------------------------------------------
(* Reading the conversation *)

\* the conversation of the running agent
Conv == IF agent = "core" THEN messages ELSE conversation_history

LastTurn == Conv[Len(Conv)]

\* every tool invocation the backend has returned in this task
AllUses ==
    UNION { {Conv[j].items[k] : k \in 1..Len(Conv[j].items)} :
            j \in {i \in 1..Len(Conv) : Conv[i].kind = "assistant"} }

\* every tool result AgentCore holds: folded into messages, or still in tool_results
Recorded ==
    UNION { {messages[j].items[k] : k \in 1..Len(messages[j].items)} :
            j \in {i \in 1..Len(messages) : messages[i].kind = "tool_results"} }
        \cup {tool_results[k] : k \in 1..Len(tool_results)}

Executed == {executed[k] : k \in 1..Len(executed)}

\* the prompts shown for invocation id
PromptsFor(id) == {k \in 1..Len(prompts) : prompts[k][3] = id}

\* the number of tool turns that follow position j of conversation_history
RECURSIVE ToolRun(_)
ToolRun(j) ==
    IF j < Len(conversation_history) /\ conversation_history[j + 1].kind = "tool"
    THEN 1 + ToolRun(j + 1)
    ELSE 0

Interrupted == \E k \in 1..Len(prompts) : prompts[k][2] = "^C"

----------------------------------------------------------------------------
(* Claims *)

\* C1: a task issues at most max_iterations model requests, whatever the
\* backend does; a task that is over after a last iteration that ran to its
\* end (tool results, a cancelled call or an error turn were added last) has
\* returned, not raised, and its result contains "maximum iterations".
C1_IterationCap ==
    /\ requests <= max_iterations
    /\ iteration <= max_iterations
    /\ (pc \in {"done", "raised"} /\ ~Interrupted
            /\ LastTurn.kind \in {"tool_results", "tool", "error"})
        => /\ pc = "done"
           /\ ~raised
           /\ requests = max_iterations
           /\ contains(result, <<"maximum iterations">>)

\* C1 witness: the cap was reached while the model was still requesting tools
C1_Witness ==
    /\ pc = "done"
    /\ requests = max_iterations
    /\ LastTurn.kind \in {"tool_results", "tool"}
    /\ contains(result, <<"maximum iterations">>)

\* C2 (as claimed): whenever the last response carried no tool invocation,
\* the task is over and its result is the text of that response.
C2_NoToolsTerminates ==
    (pc # "idle" /\ LastTurn.kind = "assistant" /\ LastTurn.items = <<>>)
        => (pc = "done" /\ result = LastTurn.text)

\* C3 (as claimed): for every task_complete invocation the loop has run, the
\* sanity check was entered, and when the operator answered no the result
\* recorded for that invocation is the NOT-complete instruction and the task
\* has not ended.
C3_NotCompleteInjected ==
    agent = "core" =>
        \A u \in AllUses :
            (u.name = "task_complete" /\ u.id \in Executed) =>
                \E k \in PromptsFor(u.id) :
                    /\ prompts[k][1] = "task_complete"
                    /\ prompts[k][2] \in {"no", "n"} =>
                          \A r \in Recorded :
                              r.tool_use_id = u.id => r.content = NotCompleteMsg

C5_SignalsDetected ==
    \A r \in Recorded :
        /\ ~startswith(r.content, HumanHelpSignal)
        /\ ~startswith(r.content, ConfirmationSignal)
        /\ ~startswith(r.content, TaskCompleteSignal)

\* the ids of a list of invocations or of results
Ids(items) == [k \in 1..Len(items) |-> items[k].id]
ResultIds(items) == [k \in 1..Len(items) |-> items[k].tool_use_id]

\* C6: handlers are run in the order the invocations were returned; the tool
\* results AgentCore collects and folds back are, position by position, the
\* results of the invocations of the assistant turn before them, one for each;
\* the tool turns MainAgent adds after an assistant turn carry, in order, the
\* ids of its first invocations, and all of them unless the turn is still
\* running or was cut short by an exception or an interrupt.
C6_OrderedResults ==
    /\ \A a, b \in 1..Len(executed) : a < b => executed[a] < executed[b]
    /\ (agent = "core" /\ pc = "tools") =>
          /\ Len(tool_results) = blk - 1
          /\ ResultIds(tool_results) = SubSeq(Ids(response.tool_uses), 1, blk - 1)
    /\ \A j \in 1..Len(messages) :
          messages[j].kind = "tool_results" =>
              /\ j > 1
              /\ messages[j - 1].kind = "assistant"
              /\ ResultIds(messages[j].items) = Ids(messages[j - 1].items)
    /\ \A j \in 1..Len(conversation_history) :
          /\ conversation_history[j].kind = "assistant" =>
                LET m == ToolRun(j)
                    ids == Ids(conversation_history[j].items)
                IN  /\ m <= Len(ids)
                    /\ \A k \in 1..m : conversation_history[j + k].items = <<ids[k]>>
                    /\ m < Len(ids) =>
                          \/ /\ j + m = Len(conversation_history)
                             /\ pc \in {"tools", "raised"}
                             /\ pc = "tools" => blk = m + 1
                          \/ /\ j + m < Len(conversation_history)
                             /\ conversation_history[j + m + 1].kind = "error"
          /\ conversation_history[j].kind = "tool" =>
                /\ j > 1
                /\ conversation_history[j - 1].kind \in {"assistant", "tool"}

\* C6 witness: two invocations of one response were run and both results folded back
C6_Witness ==
    \/ \E j \in 1..Len(messages) :
          messages[j].kind = "tool_results" /\ Len(messages[j].items) >= 2
    \/ \E j \in 1..Len(conversation_history) :
          conversation_history[j].kind = "assistant" /\ ToolRun(j) >= 2

\* C7: a step in which the except clause of the loop runs adds exactly one
\* user turn describing the error to the conversation and leaves the task
\* running at the head of the loop: it neither returns nor raises.
C7_ExceptionCaught ==
    [][last_error' # last_error =>
          /\ Len(Conv') = Len(Conv) + 1
          /\ SubSeq(Conv', 1, Len(Conv)) = Conv
          /\ Conv'[Len(Conv')].kind = "error"
          /\ Conv'[Len(Conv')].role = "user"
          /\ pc' = "loop"
          /\ ~raised'
          /\ result' = result
          /\ iteration' \in {iteration, iteration + 1}]_vars

\* C7 witness: after an exception the loop has gone on to a further model request
C7_Witness ==
    /\ last_error > 0
    /\ requests > last_error
    /\ \E j \in 1..Len(Conv) : Conv[j].kind = "error"

\* C8 (as claimed): a call of execute returns; it does not raise.
C8_ExecuteNeverRaises == ex_out.called => ~ex_out.raised

\* the tools the claim calls navigation-class, by their registered names
NavigationTools == {"click_element", "navigate_url", "scroll_page", "switch_tab"}

\* x ends with suffix
endswith(x, suffix) ==
    Len(x) >= Len(suffix) /\ SubSeq(x, Len(x) - Len(suffix) + 1, Len(x)) = suffix

\* C9 (as claimed): the result recorded for an invocation of a click,
\* navigate, scroll or tab-switch tool ends with the refreshed page state.
C9_RefreshAfterNavigation ==
    agent = "core" =>
        \A u \in AllUses : \A r \in Recorded :
            (u.name \in NavigationTools /\ r.tool_use_id = u.id)
                => endswith(r.content, PageUpdated)

\* C10: in MainAgent.run, an invocation for which the operator declined the
\* security prompt is never handed to a handler; the tool turn recorded for
\* its id is the cancelled-by-user result; and when it was not the last
\* invocation of the response the loop is at the next invocation.
C10_DeclinedClickSkipped ==
    agent = "main" =>
        \A p \in 1..Len(prompts) :
            (prompts[p][1] = "security" /\ prompts[p][2] \in {"no", "n", "ru:net"}) =>
                /\ prompts[p][3] \notin Executed
                /\ \E j \in 1..Len(conversation_history) :
                      /\ conversation_history[j].kind = "tool"
                      /\ conversation_history[j].items = <<prompts[p][3]>>
                      /\ contains(conversation_history[j].text, <<"cancelled by user">>)
                      /\ (j = Len(conversation_history) /\ pc = "tools") =>
                            /\ blk <= Len(response.tool_uses)
                            /\ response.tool_uses[blk].id = prompts[p][3] + 1

\* C10 witness: a click was declined and the next invocation of the same
\* response was then run by its handler
C10_Witness ==
    /\ agent = "main"
    /\ \E p \in 1..Len(prompts) :
          /\ prompts[p][1] = "security"
          /\ prompts[p][2] \in {"no", "n", "ru:net"}
          /\ prompts[p][3] + 1 \in Executed
          /\ \E j \in 1..Len(conversation_history) :
                /\ conversation_history[j].kind = "assistant"
                /\ \E k \in 1..(Len(conversation_history[j].items) - 1) :
                      conversation_history[j].items[k].id = prompts[p][3]

\* C11 (as claimed): every request_human_help or request_confirmation
\* invocation the loop has run put the operator in front of the wait or the
\* prompt, and an interrupt there ended the task: the task is over and the
\* interrupted invocation is the last one handed to a handler.
C11_InterruptAborts ==
    agent = "core" =>
        \A u \in AllUses :
            (u.name \in {"request_human_help", "request_confirmation"} /\ u.id \in Executed) =>
                /\ PromptsFor(u.id) # {}
                /\ \A k \in PromptsFor(u.id) :
                      prompts[k][2] = "^C" =>
                          /\ pc \in {"done", "raised"}
                          /\ executed[Len(executed)] = u.id

\* C12: a close_tab call made while exactly one tab is open closes nothing,
\* leaves that tab open and active, and returns a failure string, whatever
\* the tab index.
C12_OnlyTabKept ==
    (tab_call.op = "close_tab" /\ Len(tab_call.pages) = 1) =>
        /\ pages = tab_call.pages
        /\ _page = tab_call._page
        /\ pages = <<_page>>
        /\ startswith(tab_call.out, FailurePrefix)

\* C12 witness: index 0 was closed on a session brought back to its last tab
C12_Witness ==
    /\ tab_call.op = "close_tab"
    /\ tab_call.tab_index = 0
    /\ Len(tab_call.pages) = 1
    /\ opened > 1

\* C13: exactly one open tab is the active page; a close_tab call that closed
\* a tab removed the tab of that index and no other, made the next tab active
\* (the previous one when the closed tab was last) when the closed tab was
\* active, and left the active page as it was otherwise.
C13_OneActiveTab ==
    /\ Cardinality({k \in 1..Len(pages) : pages[k] = _page}) = 1
    /\ (tab_call.op = "close_tab" /\ pages # tab_call.pages) =>
          LET i == tab_call.tab_index
              before == tab_call.pages
          IN  /\ i \in 0..(Len(before) - 1)
              /\ pages = RemoveAt(before, i)
              /\ _page = IF before[i + 1] # tab_call._page THEN tab_call._page
                         ELSE IF i < Len(before) - 1 THEN before[i + 2]
                         ELSE before[i]

\* C13 witness: the active tab was the last one and was closed
C13_Witness ==
    /\ tab_call.op = "close_tab"
    /\ Len(tab_call.pages) >= 2
    /\ tab_call.tab_index = Len(tab_call.pages) - 1
    /\ tab_call.pages[Len(tab_call.pages)] = tab_call._page
    /\ pages # tab_call.pages

\* C14 (as claimed): the tokens_used value capture_current_state reports is
\* at most the token budget whenever it truncated the snapshot.
C14_TokensWithinBudget ==
    (captured.called /\ captured.truncated) => captured.tokens_used <= token_limit

\* C15 (as claimed): _truncate_snapshot applied to the text it returned, at
\* the same budget, returns that text.
C15_TruncateIdempotent ==
    truncated_twice.called => truncated_twice.snapshot = truncated_once.snapshot

\* the lines of the rendered snapshot of one kind and type
LinesOf(kind, element_type) ==
    SelectSeq(rendered, LAMBDA l : l.kind = kind /\ l.type = element_type)

\* the display limit the claim gives a type
DisplayLimit(element_type) ==
    IF element_type \in {"product-card", "order-item", "heading", "navigation", "price",
                         "badge", "cart-item"}
    THEN 30 ELSE 15

\* C16: in the rendered snapshot every item line shows the first 150
\* characters of its element's text and no more; a group shows its first
\* elements, in order, up to its display limit (30 or 15); and it has one
\* "+N more" line, with N the group size minus the limit, exactly when it is
\* larger than the limit.
C16_DisplayLimits ==
    rendered # <<>> =>
        \A t \in {elements[k].type : k \in 1..Len(elements)} :
            LET items == Group(elements, t)
                shown == LinesOf("item", t)
                more == LinesOf("more", t)
            IN  /\ Len(shown) <= DisplayLimit(t)
                /\ Len(shown) = IF Len(items) <= DisplayLimit(t) THEN Len(items)
                                ELSE DisplayLimit(t)
                /\ \A k \in 1..Len(shown) :
                      /\ shown[k].idx = k
                      /\ shown[k].chars <= 150
                      /\ shown[k].chars = IF items[k].text <= 150 THEN items[k].text ELSE 150
                /\ Len(more) = IF Len(items) > DisplayLimit(t) THEN 1 ELSE 0
                /\ \A k \in 1..Len(more) : more[k].n = Len(items) - DisplayLimit(t)

\* C16 witness: a snapshot with a group of 31 headings, a group of exactly 15
\* buttons and a text longer than 150 characters
C16_Witness ==
    /\ rendered # <<>>
    /\ Len(Group(elements, "heading")) = 31
    /\ Len(Group(elements, "button")) = 15
    /\ \E k \in 1..Len(elements) : elements[k].text > 150
    /\ Len(LinesOf("more", "heading")) = 1
    /\ Len(LinesOf("more", "button")) = 0

\* the place of node i in the results of the last discovery call, 0 if absent
PlaceOf(i) ==
    IF \E k \in 1..Len(found) : found[k].node = i
    THEN CHOOSE k \in 1..Len(found) : found[k].node = i
    ELSE 0

\* C19: in the results of a discovery call, a span, div or p whose parent is
\* a button, a, input, select or textarea comes after that parent and has a
\* lower priority whenever both are in the results.
C19_ParentAboveChild ==
    \A c \in 1..Len(dom) :
        LET q == dom[c].parent
        IN  (/\ dom[c].tag \in {"span", "div", "p"}
             /\ q # 0
             /\ dom[q].tag \in {"button", "a", "input", "select", "textarea"}
             /\ PlaceOf(c) # 0
             /\ PlaceOf(q) # 0)
                => /\ PlaceOf(q) < PlaceOf(c)
                   /\ found[PlaceOf(q)].priority > found[PlaceOf(c)].priority

\* C19 witness: a button without text of its own holds a span "Submit"; both
\* are in the results and the button is first
C19_Witness ==
    /\ Len(dom) >= 2
    /\ dom[1].tag = "button" /\ dom[1].own = "" /\ dom[1].role = "none"
    /\ dom[2].tag = "span" /\ dom[2].own = "Submit" /\ dom[2].parent = 1
    /\ Len(found) = 2
    /\ found[1].node = 1
    /\ found[2].node = 2

\* the last call was an action on an element
ElementAction == last.op \in {"click_element", "type_text"}

\* C17 (as claimed): an action that uses a selector the discovery call right
\* before it returned acts on the node that call gave the selector to.
C17_SelectorAddressesNode ==
    (ElementAction /\ last.assigned # 0) =>
        /\ last.target = last.assigned
        /\ \A k \in 1..Len(last.acts) :
              last.acts[k].kind \in {"click", "fill"} => last.acts[k].node = last.assigned

DefaultLinks(d, el) ==
    {j \in Subtree(d, el) :
        /\ d[j].tag = "a"
        /\ d[j].href # NoHref
        /\ d[j].target \in {"", "_self"}
        /\ ~startswith(d[j].href, <<"javascript:">>)}

\* C20 (as claimed): a click_element call whose selector resolved to a node
\* performs one driver operation: the direct navigation to the href of a
\* default-target link when the node or a descendant is one, after which the
\* URL is that href, and the simulated click on the node otherwise.
C20_LinkShortCircuit ==
    (last.op = "click_element" /\ last.target # 0) =>
        /\ Len(last.acts) = 1
        /\ IF DefaultLinks(last.before, last.target) # {}
           THEN \E j \in DefaultLinks(last.before, last.target) :
                   /\ last.acts[1] = Act("goto", 0, last.before[j].href)
                   /\ url = last.before[j].href
           ELSE last.acts[1] = Act("click", last.target, NoHref)


\* C21: one discovery call returns at most 10 results, the surviving
\* candidates of highest priority in non-increasing order of priority; the
\* k-th result (k from 0) has the selector of index k and its node carries
\* marker k afterwards, so the markers of one call are pairwise distinct and
\* sit on pairwise distinct nodes.
C21_TopTen ==
    [][\A search_text \in SearchTexts, element_type \in ElementTypes :
          (found' = find_elements(dom, search_text, element_type)
              /\ dom' = SetMarkers(dom, found'))
          => LET searchText == toLowerCase(search_text)
                 survivors == {i \in 1..Len(dom) : /\ hasMatch(dom, i, searchText)
                                                    /\ matchesType(dom[i], element_type)
                                                    /\ dom[i].visible}
                 returned == {found'[k].node : k \in 1..Len(found')}
             IN  /\ Len(found') <= 10
                 /\ Len(found') = 10 \/ returned = survivors
                 /\ returned \subseteq survivors
                 /\ \A k \in 1..Len(found') :
                        /\ found'[k].selector = k - 1
                        /\ dom'[found'[k].node].marker = k - 1
                        /\ found'[k].priority = getPriority(dom, found'[k].node, searchText)
                 /\ \A k, m \in 1..Len(found') :
                        /\ k # m => found'[k].node # found'[m].node
                        /\ k < m => found'[k].priority >= found'[m].priority
                 /\ \A i \in survivors \ returned : \A k \in 1..Len(found') :
                        found'[k].priority >= getPriority(dom, i, searchText)
    ]_vars

\* a call with more than ten surviving candidates of different priorities
\* has returned ten of them
C21_Witness ==
    /\ Len(found) = 10
    /\ \E i \in 1..Len(dom) : dom[i].marker = -1 /\ dom[i].own = "Submit" /\ dom[i].visible
    /\ found[1].priority > found[10].priority
    /\ \A k \in 1..10 : dom[found[k].node].marker = k - 1


\* the marker line reporting k omitted lines
MarkerLine(k) == [len |-> 31 + Digits(k), omitted |-> k]

\* out is the first lines of input, whole and within the budget when joined,
\* then the lines of gap, then one marker line counting the lines left out
TruncatedShape(input, out, gap) ==
    \E k \in 0..(Len(input) - 1) :
        /\ out = SubSeq(input, 1, k) \o gap \o <<MarkerLine(Len(input) - k)>>
        /\ k = 0 \/ TextLen(SubSeq(input, 1, k)) <= token_limit * CHARS_PER_TOKEN

\* C22 (as claimed): when _truncate_snapshot truncates, its output is a
\* prefix of whole input lines, within the character budget when joined,
\* followed by one marker line whose count is the number of input lines left
\* out.
C22_PrefixThenMarker ==
    /\ (truncated_once.called /\ truncated_once.truncated)
           => TruncatedShape(snapshot, truncated_once.snapshot, <<>>)
    /\ (truncated_twice.called /\ truncated_twice.truncated)
           => TruncatedShape(truncated_once.snapshot, truncated_twice.snapshot, <<>>)

\* C22 (amended): when _truncate_snapshot truncates, its output is a prefix of
\* whole input lines, within the character budget when joined, followed by an
\* empty line and then one marker line whose count is the number of input
\* lines left out; the marker is present whenever the flag is true.
C22_PrefixBlankMarker ==
    /\ (truncated_once.called /\ truncated_once.truncated)
           => TruncatedShape(snapshot, truncated_once.snapshot, <<TextLine(0)>>)
    /\ (truncated_twice.called /\ truncated_twice.truncated)
           => TruncatedShape(truncated_once.snapshot, truncated_twice.snapshot,
                             <<TextLine(0)>>)

\* a truncation that kept two lines and left out one, and a second
\* truncation of its output
C22_Witness ==
    /\ truncated_once.called /\ truncated_once.truncated
    /\ Len(snapshot) = 3
    /\ Len(truncated_once.snapshot) = 4
    /\ truncated_once.snapshot[1].len > 0
    /\ truncated_twice.called /\ truncated_twice.truncated


\* C23 (as claimed): find_elements excludes an element at its visibility
\* check exactly when _extract_interactive_elements does, whatever its
\* display, visibility, opacity and size and whether or not it is a form
\* control.
C23_SameVisibility ==
    (extracted.called /\ discovered.called /\ selectors(elem))
        => (discovered.hidden <=> extracted.hidden)


\* the class name has "product" or "card" in it
ProductOrCard(e) == includes(e.className, "product") \/ includes(e.className, "card")

\* a rule after the product-card rule applies to the element
LaterRule(e) ==
    \/ \E w \in {"order", "cart"} : includes(e.className, w) /\ ~includes(e.className, "button")
    \/ \E w \in {"modal", "popup", "dialog", "badge", "tag", "label", "price", "dropdown"} :
          includes(e.className, w)
    \/ e.role \in {"dialog", "listbox"}
    \/ "data-price" \in e.attrs

FirstTurns(task) ==
    IF agent = "core" THEN <<Turn("user", "task", task, <<>>)>>
    ELSE <<Turn("system", "system", system_prompt, <<>>), Turn("user", "task", task, <<>>)>>

\* C24: every step of a task leaves the turns already in the conversation
\* as they are and in their places, adding turns only at the end; the start
\* of a task leaves nothing but the first turn(s) of that task; a reset
\* leaves the empty conversation for AgentCore and the system prompt alone
\* for MainAgent.
C24_AppendOnly ==
    [][/\ pc \in {"loop", "tools"}
           => Len(Conv') >= Len(Conv) /\ SubSeq(Conv', 1, Len(Conv)) = Conv
       /\ (pc \in {"idle", "done"} /\ pc' = "loop")
           => Conv' \in {FirstTurns(user_task), FirstTurns(next_task)}
       /\ (pc = "done" /\ pc' = "idle")
           => Conv' = IF agent = "core" THEN <<>>
                      ELSE <<Turn("system", "system", system_prompt, <<>>)>>
    ]_vars

\* a second task that has run for some turns, after a first task of a
\* different text
C24_Witness ==
    /\ pc \in {"loop", "tools"}
    /\ Len(Conv) >= 4
    /\ SubSeq(Conv, 1, Len(FirstTurns(next_task))) = FirstTurns(next_task)


\* C25 (as claimed): after a switch to another tab, an action that uses a
\* selector value issued before the switch, and not issued again by a
\* discovery call right before the action, returns a failure string and
\* performs no click or text entry; so also after switching back.
C25_SwitchInvalidates ==
    (ElementAction /\ last.stale /\ last.assigned = 0 /\ tab_call.op = "switch_tab") =>
        /\ startswith(last.out, FailurePrefix)
        /\ last.acts = <<>>


\* C27 (as claimed): when a model request is about to be made, every
\* assistant turn of the conversation that carries tool invocations is
\* followed at once by their results, one for each invocation, in order and
\* with its id: in one tool-results turn for AgentCore, in as many tool turns
\* for MainAgent.
C27_ResultsForEveryUse ==
    (pc = "loop" /\ WhileCondition(iteration)) =>
        /\ agent = "core" =>
              \A j \in 1..Len(messages) :
                 (messages[j].kind = "assistant" /\ messages[j].items # <<>>) =>
                     /\ j < Len(messages)
                     /\ messages[j + 1].kind = "tool_results"
                     /\ ResultIds(messages[j + 1].items) = Ids(messages[j].items)
        /\ agent = "main" =>
              \A j \in 1..Len(conversation_history) :
                 (conversation_history[j].kind = "assistant"
                        /\ conversation_history[j].items # <<>>) =>
                     LET ids == Ids(conversation_history[j].items)
                     IN  /\ ToolRun(j) = Len(ids)
                         /\ \A k \in 1..Len(ids) :
                                conversation_history[j + k].items = <<ids[k]>>


\* C28 (as claimed): every task_complete invocation AgentCore has run put the
\* task-complete question to the operator, and once the operator confirmed
\* (yes, y or an empty line) the task is over with the summary as its result
\* and that invocation is the last one handed to a handler: the invocations
\* after it in the response are not run and no model request follows.
C28_ConfirmReturnsAtOnce ==
    agent = "core" =>
        \A u \in AllUses :
            (u.name = "task_complete" /\ u.id \in Executed) =>
                \E k \in PromptsFor(u.id) :
                    /\ prompts[k][1] = "task_complete"
                    /\ prompts[k][2] \in {"yes", "y", ""} =>
                          /\ pc = "done"
                          /\ result = u.input.summary
                          /\ executed[Len(executed)] = u.id
                          /\ LastTurn.kind = "assistant"


\* C29 (as claimed): _handle_confirmation applied to the string
\* request_confirmation built recovers the risk level and the action
\* description it was built from, colons in the description included, and
\* the confirmed result echoes that description.
C29_RoundTrip ==
    confirmed.called =>
        /\ confirmed.risk_level = confirmation.risk_level
        /\ confirmed.action_description = confirmation.action_description
        /\ confirmation.answer \in {"yes", "y"} =>
              confirmed.out =
                  <<"<emoji>", " ", "User CONFIRMED the action. You may proceed with", ":", " ">>
                      \o confirmation.action_description


\* C30 (as claimed): with more than one tab open, the tab list of observe_page
\* marks one tab as current and no other, and the marked tab is the active
\* one, whatever the URLs of the tabs.
C30_ActiveTabMarked ==
    (observed.called /\ Len(observed.rows) > 1) =>
        \A k \in 1..Len(observed.rows) :
            observed.rows[k].current <=> observed.rows[k].index = observed.active

====
